---------------------------- MODULE Spec2Model ----------------------------
(***************************************************************************)
(* PrivatePay (prividium-examples): the L2 contracts PrivatePay and        *)
(* SharedKMS, the keystream cipher of examples/private-pay/src/crypto.js,  *)
(* the Example #4 sender app and the stealth-deposit scanner of the        *)
(* key-directory app.                                                      *)
(*                                                                         *)
(* Representation of byte strings.                                         *)
(*   - A bytes32 value is a natural below 2^WordBits ("word"); XOR is the  *)
(*     real bitwise XOR on it.  An address is a word below 2^AddrBits: the *)
(*     high (WordBits - AddrBits) bits are the 12 zero bytes of an         *)
(*     ABI-encoded address.                                                *)
(*   - A ciphertext or plaintext byte string is a sequence of words, 32    *)
(*     bytes each.                                                         *)
(*   - An AAD is a sequence of chunks <<width in bytes, value>>, as        *)
(*     encodePacked lays the fields out one after the other.               *)
(*   - keccak256 is a library primitive: it is modelled as a collision-free*)
(*     function of its input, an affine bijection of the input's code.     *)
(***************************************************************************)
EXTENDS Integers, Sequences, FiniteSets, TLC

VARIABLES
  \* SharedKMS storage
  owner, privateKey, allowlist,
  \* the last encryptRecipient call and the last SharedKMS.decrypt call
  sealed, opened,
  \* the last setConsumer transaction sent to SharedKMS on its own (history)
  lastSet,
  \* PrivatePay storage and the accounts' balances, as committed
  used, receivedTotal, balance,
  \* per depositId the number of successful deposits, and the sum of their
  \* msg.value (history)
  completed, deposited,
  \* the onL1Deposit calls whose value transfer is running (innermost first),
  \* and the call that is submitted or was last executed
  stack, call,
  \* the inbox contract's deposit records and the claim transaction sent but
  \* not yet executed
  ledger, mempool,
  \* the recipient's session in the key-directory app
  l2WalletAddress, privKeyHex, isAuthorized, claimTo,
  \* the app's deposit state (React state)
  depositHeaders, decryptable, depositError, loadingDeposits, claimingIndex, lastClaimTx,
  \* the loadDeposits run in progress, how the last run ended, and what the
  \* last step of a run did (history)
  scan, lastRun, lastEvent,
  \* the loadDeposits runs and claimDeposit calls in flight at once, and what
  \* the most recently started run computed (history)
  tasks,
  \* the sender app, run twice: the random draws, the configured key and the
  \* amount (the same in both runs), and each run's form, request and error
  genDraw, configKey, amountWei, form, l1Request, sendError,
  \* the sender app step by step: its form, the generatePayload calls awaiting
  \* encryptRecipient, the sendTransaction call awaiting the wallet, and the
  \* request the wallet was handed last (history)
  senderApp,
  \* the send tab of the key-directory app (React state), the getPubKey reads
  \* in flight with the last answer to a cleaned-up read (history), and the
  \* values randomHex32 returned last (history)
  recipientAddress, recipientPubKey, pubKeyStatus, payload, encryptionError, lookup, drawn,
  \* per operation that submits a transaction: where its invocation stands,
  \* its status or error field, its transaction hash field, and the wallet
  \* sendTransaction calls of its last invocation (history)
  submission,
  \* the recipient's key in the key-directory app (React state), the key the
  \* inbox stores for the wallet, and the last call of a function that reads
  \* or writes it (history)
  keyState

kmsVars == <<owner, privateKey, allowlist>>
cipherVars == <<sealed, opened, lastSet>>
payVars == <<used, receivedTotal, balance, completed, deposited, stack, call>>
ledgerVars == <<ledger, mempool>>
sessionVars == <<l2WalletAddress, privKeyHex, isAuthorized, claimTo>>
depositVars == <<depositHeaders, decryptable, depositError, loadingDeposits, claimingIndex, lastClaimTx>>
runVars == <<scan, lastRun, lastEvent, tasks>>
scanVars == <<ledgerVars, sessionVars, depositVars, runVars>>
genVars == <<genDraw, configKey, amountWei, form, l1Request, sendError, senderApp>>
directoryVars == <<recipientAddress, recipientPubKey, pubKeyStatus, payload, encryptionError,
                   lookup, drawn>>
keyVars == <<keyState>>
appVars == <<directoryVars, submission, keyVars>>
vars == <<kmsVars, cipherVars, payVars, scanVars, genVars, appVars>>

(* ------------------------------ bounds -------------------------------- *)
\* Deposit identifiers are 1..MaxDepositId (32 random bytes in the code).
MaxDepositId == 2
\* KMS keys are 1..NumKeys (32 random bytes in the code).
NumKeys == 2
\* Nonces are 0..MaxNonce (32 random bytes in the code).
MaxNonce == 1
\* msg.value of a deposit is 0..MaxValue.
MaxValue == 1
\* the records of an inbox that are not padding
MaxRecords == 2
\* at most MaxTasks calls of loadDeposits and claimDeposit are in flight at once
MaxTasks == 2
\* Addresses are 0..2^AddrBits-1 (160 bits in the code).
AddrBits == 2

(* ------------------------- program constants -------------------------- *)
L2_CHAIN_ID == 270
L1_CHAIN_ID == 1
ZERO_ADDRESS == 0
PRIVATE_PAY_L2_ADDRESS == 1
\* keccak256("private-pay:v1"), a fixed bytes32 tag.
CONTEXT == 1
\* The key the sender app is configured with (VITE_PRIVATE_PAY_PUBLIC_KEY).
PUBLIC_KEY == 1
\* The account that deploys SharedKMS (an externally owned account).
DEPLOYER == 2
\* A recipient that is a contract: it runs code when it receives value.
CONTRACT_RECIPIENT == 3
AAD_LENGTH == 116
CIPHERTEXT_LENGTH == 64
WORD_BYTES == 32
ADDRESS_BYTES == 20

(* ------------------------------ universes ----------------------------- *)
NAddr == 2 ^ AddrBits
Address == 0 .. (NAddr - 1)
DepositIds == 1 .. MaxDepositId
Keys == 1 .. NumKeys
Nonces == 0 .. MaxNonce
Values == 0 .. MaxValue
ChainIds == {L2_CHAIN_ID, L1_CHAIN_ID}
Contexts == {CONTEXT, CONTEXT + 1}

\* Number of distinct (key, aad, nonce) inputs keccak256 is applied to.
HashInputs == NumKeys * 2 * NAddr * 2 * MaxDepositId * (MaxNonce + 1)
\* The word width: the least one on which keccak256 is collision-free over
\* the modelled inputs and that leaves zero bytes above an address.
WordBits == CHOOSE w \in (AddrBits + 1) .. 24 :
              /\ 2 ^ w >= HashInputs
              /\ \A u \in (AddrBits + 1) .. (w - 1) : 2 ^ u < HashInputs
WordSize == 2 ^ WordBits
Word == 0 .. (WordSize - 1)

(* ------------------------------ bytes --------------------------------- *)
RECURSIVE Xor(_, _)
\* The bitwise XOR of two words (masked ^ mask, plaintextBytes[i] ^ maskBytes[i]).
Xor(a, b) ==
  IF a = 0 THEN b
  ELSE IF b = 0 THEN a
  ELSE (((a % 2) + (b % 2)) % 2) + 2 * Xor(a \div 2, b \div 2)

\* viem encodePacked(['uint256','address','bytes32','bytes32'], [a, b, c, d]):
\* the four fields one after the other, 32 + 20 + 32 + 32 bytes.
encodePacked(a, b, c, d) ==
  << <<WORD_BYTES, a>>, <<ADDRESS_BYTES, b>>, <<WORD_BYTES, c>>, <<WORD_BYTES, d>> >>

RECURSIVE ChunksLength(_)
\* aad.length: the number of bytes of a chunk sequence.
ChunksLength(bytes) ==
  IF bytes = <<>> THEN 0 ELSE Head(bytes)[1] + ChunksLength(Tail(bytes))

\* ciphertext.length / plaintext.length: a sequence of 32-byte words.
WordsLength(bytes) == WORD_BYTES * Len(bytes)

RECURSIVE ChunkAt(_, _, _)
\* calldataload(add(aad.offset, off)) narrowed to `width` bytes: the chunk that
\* starts at byte `off` when it has that width; a read that straddles two
\* fields yields a value (-1) equal to no packed field.
ChunkAt(bytes, off, width) ==
  IF bytes = <<>> THEN -1
  ELSE IF off = 0 THEN (IF Head(bytes)[1] = width THEN Head(bytes)[2] ELSE -1)
  ELSE IF off < Head(bytes)[1] THEN -1
  ELSE ChunkAt(Tail(bytes), off - Head(bytes)[1], width)

(* ----------------------------- keccak256 ------------------------------ *)
\* The position of an AAD among the well-formed AADs (mixed radix over its
\* four fields).
AadCode(aad) ==
  LET chain == IF ChunkAt(aad, 0, WORD_BYTES) = L2_CHAIN_ID THEN 0 ELSE 1
      cons  == ChunkAt(aad, 32, ADDRESS_BYTES) % NAddr
      ctx   == IF ChunkAt(aad, 52, WORD_BYTES) = CONTEXT THEN 0 ELSE 1
      dep   == (ChunkAt(aad, 84, WORD_BYTES) - 1) % MaxDepositId
  IN ((chain * NAddr + cons) * 2 + ctx) * MaxDepositId + dep

\* keccak256(key ++ aad ++ nonce) as a bytes32: collision-free on the modelled
\* inputs (an odd multiplier is a bijection modulo a power of two).
keccak256(bytes) ==
  LET key == bytes[1]
      aad == bytes[2]
      nonce == bytes[3]
      code == (((key - 1) % NumKeys) * (2 * NAddr * 2 * MaxDepositId) + AadCode(aad))
                * (MaxNonce + 1) + (nonce % (MaxNonce + 1))
  IN (code * 5 + 3) % WordSize


(* ------------------- crypto.js (keystream variant) -------------------- *)
\* The mask preimage without the AAD: a keystream that depends on key and nonce
\* only.
concatKeyNonce(key, aad, nonce) == <<key, <<>>, nonce>>

\* concatBytes(keyBytes, aadBytes, nonce) in crypto.js and
\* bytes.concat(privateKey, aad, nonce) in SharedKMS: the three parts one after
\* the other (kept apart here: each has a fixed length).
concatBytes(key, aad, nonce) == <<key, aad, nonce>>

\* A mask of no bytes.
emptyMask(keyBytes, aadBytes, nonce) == <<>>

\* maskHex = keccak256(concatBytes(keyBytes, aadBytes, nonce)), as the bytes of
\* one word.
maskBytes(keyBytes, aadBytes, nonce) == << keccak256(concatBytes(keyBytes, aadBytes, nonce)) >>

\* The loop ciphertext[i] = plaintextBytes[i] ^ maskBytes[i] over the whole
\* plaintext; beyond the mask maskBytes[i] is undefined and x ^ undefined is x.
xorLoop(plaintextBytes, mask) ==
  [i \in 1 .. Len(plaintextBytes) |->
     IF i <= Len(mask) THEN Xor(plaintextBytes[i], mask[i]) ELSE plaintextBytes[i]]

\* encryptRecipient({aadHex, publicKeyHex, plaintextHex}) with the nonce that
\* crypto.getRandomValues draws: payload = nonce ++ ciphertext.
encryptRecipient(publicKeyHex, aadHex, plaintextHex, nonce) ==
  [ciphertextHex |-> <<nonce>> \o xorLoop(plaintextHex, maskBytes(publicKeyHex, aadHex, nonce)),
   nonceHex |-> nonce]

\* encodeAbiParameters([{type: 'address'}], [recipient]): the address left-padded
\* to one 32-byte word.
encodeAddress(recipient) == << recipient >>

(* ----------------------- SharedKMS (keystream) ------------------------ *)
Revert(error) == [ok |-> FALSE, err |-> error, data |-> <<>>]
Return(bytes) == [ok |-> TRUE, err |-> "", data |-> bytes]

\* _parseAAD: InvalidAad unless aad.length == 116, then the four fields at
\* byte offsets 0, 32, 52 and 84.
parseAAD(aad) ==
  IF ChunksLength(aad) # AAD_LENGTH
  THEN [ok |-> FALSE, chainId |-> -1, consumer |-> -1, context |-> -1, depositId |-> -1]
  ELSE [ok |-> TRUE,
        chainId |-> ChunkAt(aad, 0, WORD_BYTES),
        consumer |-> ChunkAt(aad, 32, ADDRESS_BYTES),
        context |-> ChunkAt(aad, 52, WORD_BYTES),
        depositId |-> ChunkAt(aad, 84, WORD_BYTES)]

\* A mask under the sender's key, whatever key SharedKMS holds.
maskOfSenderKey(key, aad, nonce) == keccak256(concatBytes(PUBLIC_KEY, aad, nonce))

\* A mask that leaves the nonce out.
maskWithoutNonce(key, aad, nonce) == keccak256(concatBytes(key, aad, 0))

\* bytes32 mask = keccak256(bytes.concat(privateKey, aad, nonce)).
mask(key, aad, nonce) == keccak256(concatBytes(key, aad, nonce))

\* An allowlist check that lets every caller through.
anyCaller(list, sender) == TRUE

\* if (!allowlist[msg.sender]) revert NotAllowed();
allowedCaller(list, sender) == list[sender]

\* A header check that leaves the context out.
headerAnyContext(parsed, sender, context) ==
  /\ parsed.chainId = L2_CHAIN_ID
  /\ parsed.consumer = sender

\* The AAD header check of decrypt: chain id, consumer and context.
headerMatches(parsed, sender, context) ==
  /\ parsed.chainId = L2_CHAIN_ID
  /\ parsed.consumer = sender
  /\ parsed.context = context

\* SharedKMS.decrypt(context, aad, ciphertext) called by msgSender on the L2
\* chain (block.chainid == L2_CHAIN_ID), reading storage (list, key).
decrypt(list, key, msgSender, context, aad, ciphertext) ==
  IF ~allowedCaller(list, msgSender) THEN Revert("NotAllowed")
  ELSE LET parsed == parseAAD(aad) IN
    IF ~parsed.ok THEN Revert("InvalidAad")
    ELSE IF ~headerMatches(parsed, msgSender, context) THEN Revert("InvalidAad")
    ELSE IF WordsLength(ciphertext) # CIPHERTEXT_LENGTH THEN Revert("InvalidCiphertext")
    ELSE Return(<< Xor(ciphertext[2], mask(key, aad, ciphertext[1])) >>)

\* SharedKMS.decrypt of contracts/SharedKMS.sol (the variant that hands the
\* ciphertext to the KMS precompile): the same allowlist and header checks,
\* then the precompile's plaintext, or DecryptFailed when the precompile
\* reverts.
decryptPrecompile(list, msgSender, context, aad, precompile) ==
  IF ~allowedCaller(list, msgSender) THEN Revert("NotAllowed")
  ELSE LET parsed == parseAAD(aad) IN
    IF ~parsed.ok THEN Revert("InvalidAad")
    ELSE IF ~headerMatches(parsed, msgSender, context) THEN Revert("InvalidAad")
    ELSE IF precompile.ok THEN Return(precompile.data)
    ELSE Revert("DecryptFailed")

\* setConsumer without the onlyOwner modifier.
setConsumerByAnyone(sender, consumer, allowed) ==
  /\ allowlist' = [allowlist EXCEPT ![consumer] = allowed]
  /\ UNCHANGED <<owner, privateKey>>

\* SharedKMS.setConsumer(consumer, allowed) sent by `sender`: onlyOwner, then
\* allowlist[consumer] = allowed.  A revert leaves storage as it was.
setConsumer(sender, consumer, allowed) ==
  /\ allowlist' = IF sender = owner
                  THEN [allowlist EXCEPT ![consumer] = allowed]
                  ELSE allowlist
  /\ UNCHANGED <<owner, privateKey>>

(* ------------------ SharedKMS and the cipher, on their own ------------ *)
\* The accounts that call SharedKMS.decrypt: the PrivatePay contract and one
\* other contract.
KmsCallers == {PRIVATE_PAY_L2_ADDRESS, CONTRACT_RECIPIENT}
\* The accounts that send setConsumer: the owner and one other account.
KmsAdmins == {DEPLOYER, CONTRACT_RECIPIENT}
\* The 32-byte plaintexts that are sealed: an ABI-encoded address, the zero
\* address, and a word that is no address.
Plaintexts == {DEPLOYER, ZERO_ADDRESS, WordSize - 1}
\* The AADs a sender seals under: 116 bytes naming the L2 chain, a consumer, a
\* context and a deposit.
SealAads ==
  {encodePacked(L2_CHAIN_ID, c, x, d) : c \in KmsCallers, x \in Contexts, d \in DepositIds}
\* An AAD with one of its four fields replaced.
WithField(aad, i, v) == [aad EXCEPT ![i] = <<aad[i][1], v>>]
\* A byte string of 84 bytes: an AAD cut short of its last field.
Truncated(aad) == SubSeq(aad, 1, Len(aad) - 1)
\* The AADs handed to decrypt for a ciphertext sealed under `aad`: that AAD, the
\* AADs that differ from it in one field, and the AAD cut short.
OpenAads(aad) ==
  {aad, Truncated(aad)}
    \cup {WithField(aad, 1, ch) : ch \in ChainIds}
    \cup {WithField(aad, 2, c) : c \in KmsCallers}
    \cup {WithField(aad, 3, x) : x \in Contexts}
    \cup {WithField(aad, 4, d) : d \in DepositIds}

NoSet == [sent |-> FALSE, sender |-> 0, consumer |-> 0]
NoCall == [called |-> FALSE, caller |-> 0, context |-> 0, aad |-> <<>>, ciphertext |-> <<>>,
           allowed |-> FALSE, result |-> Revert("")]

\* constructor(bytes privateKey_): owner = msg.sender, both keys the argument,
\* the allowlist empty.
KmsInit ==
  /\ owner = DEPLOYER
  /\ privateKey \in Keys
  /\ allowlist = [a \in Address |-> FALSE]

\* The inputs of one encryptRecipient call: key, AAD, plaintext and the nonce
\* that is drawn; nothing is sealed or opened yet.
CipherInit ==
  /\ sealed \in [key : Keys, aad : SealAads, plaintext : {<<p>> : p \in Plaintexts},
                 nonce : Nonces, ciphertext : {<<>>}]
  /\ opened = NoCall
  /\ lastSet = NoSet

\* A setConsumer transaction.
SetConsumer ==
  \E sender \in KmsAdmins, consumer \in KmsCallers, allowed \in BOOLEAN :
    /\ ~opened.called
    /\ setConsumer(sender, consumer, allowed)
    /\ lastSet' = [sent |-> TRUE, sender |-> sender, consumer |-> consumer]
    /\ UNCHANGED <<appVars, sealed, opened, payVars, scanVars, genVars>>

\* The sender seals the plaintext: encryptRecipient on the drawn inputs.
Seal ==
  /\ sealed.ciphertext = <<>>
  /\ sealed' = [sealed EXCEPT !.ciphertext =
       encryptRecipient(sealed.key, sealed.aad, sealed.plaintext, sealed.nonce).ciphertextHex]
  /\ UNCHANGED <<appVars, kmsVars, opened, lastSet, payVars, scanVars, genVars>>

\* The ciphertexts a caller hands to decrypt: the sealed one, the sealed one
\* with a flipped bit, the sealed one cut to its nonce.
OpenCiphertexts ==
  {sealed.ciphertext,
   <<sealed.ciphertext[1], Xor(sealed.ciphertext[2], 1)>>,
   <<sealed.ciphertext[1]>>}

\* A call of SharedKMS.decrypt (a view function: storage is left alone, the
\* call and what it returned are recorded).
Open ==
  /\ sealed.ciphertext # <<>>
  /\ ~opened.called
  /\ \E caller \in KmsCallers, context \in Contexts,
        aad \in OpenAads(sealed.aad), ct \in OpenCiphertexts :
       opened' = [called |-> TRUE, caller |-> caller, context |-> context, aad |-> aad,
                  ciphertext |-> ct, allowed |-> allowlist[caller],
                  result |-> decrypt(allowlist, privateKey, caller, context, aad, ct)]
  /\ UNCHANGED <<appVars, kmsVars, sealed, lastSet, payVars, scanVars, genVars>>

(* ------------- key-directory app: crypto.js and the inbox --------------- *)
\* crypto.js of this app and the PrivatePayInbox contract are not among the
\* sources: they follow the specification (sections 3, 4.2, 4.3) and the calls
\* the app makes.  Keys and ciphertexts are terms: a sealed ciphertext opens
\* under the key, nonce and AAD it was sealed with and under nothing else.
SCAN_LIMIT == 20
PLAINTEXT_LENGTH == 52
PRIVATEPAY_INBOX_L2_ADDRESS == 1
CONTEXT_HASH == 1
\* the connected wallet and another account
WALLET == 2
STRANGER == 3
\* the recipient's private key, another recipient's, and the scalar and the
\* nonce encryptPayload draws
RECIPIENT_KEY == 1
STRANGER_KEY == 2
EPHEMERAL_KEY == 3
PAYLOAD_NONCE == 0
\* the fixed-width fields of a bundle in front of its ciphertext
BUNDLE_PREFIX == 3
\* null
NoIndex == 0 - 1
\* ''
NoKey == 0

publicKeyOf(privKey) == <<"pub", privKey>>

\* ECDH: the same secret from either side's private key and the other's point.
sharedSecret(privKey, pubKey) == {privKey, pubKey[2]}

\* seal
encryptPayload(recipientPubKeyHex, plaintext, aad) ==
  [ephemeralPub |-> publicKeyOf(EPHEMERAL_KEY),
   nonce |-> PAYLOAD_NONCE,
   sealed |-> [key |-> sharedSecret(EPHEMERAL_KEY, recipientPubKeyHex), nonce |-> PAYLOAD_NONCE,
               aad |-> aad, plaintext |-> plaintext]]

\* open
open(privKey, ephemeralPub, nonce, sealedBytes, aad) ==
  IF /\ sealedBytes.key = sharedSecret(privKey, ephemeralPub)
     /\ sealedBytes.nonce = nonce
     /\ sealedBytes.aad = aad
  THEN [ok |-> TRUE, plaintext |-> sealedBytes.plaintext]
  ELSE [ok |-> FALSE, plaintext |-> <<>>]

\* bundle
bundleCiphertext(depositId, ephemeralPub, nonce, sealedBytes) ==
  <<depositId, ephemeralPub, nonce, sealedBytes>>

\* unbundle
unbundle(bundleHex) ==
  IF Len(bundleHex) <= BUNDLE_PREFIX
  THEN [ok |-> FALSE, depositId |-> 0, ephemeralPub |-> <<>>, nonce |-> 0, sealed |-> <<>>]
  ELSE [ok |-> TRUE, depositId |-> bundleHex[1], ephemeralPub |-> bundleHex[2],
        nonce |-> bundleHex[3], sealed |-> bundleHex[4]]

\* unbundle, aadBuilder(depositId), open; aadBuilder is the function given by
\* the caller.
decryptPayload(privKey, bundleHex, aadBuilder) ==
  LET parts == unbundle(bundleHex)
      result == open(privKey, parts.ephemeralPub, parts.nonce, parts.sealed,
                     aadBuilder[parts.depositId])
  IN IF ~parts.ok
       THEN [ok |-> FALSE, err |-> "MalformedEnvelope", plaintext |-> <<>>, depositIdHex |-> 0]
     ELSE IF ~result.ok
       THEN [ok |-> FALSE, err |-> "DecryptionError", plaintext |-> <<>>, depositIdHex |-> 0]
     ELSE [ok |-> TRUE, err |-> "", plaintext |-> result.plaintext,
           depositIdHex |-> parts.depositId]

\* keccak256 of a 32-byte secret: free of collisions on the secrets in use.
commitmentOf(secret) == (secret * 7 + 3) % WordSize

\* The inbox's reads.
getDepositsCount(records) == Len(records)

Min(a, b) == IF a < b THEN a ELSE b

getRecentDeposits(records, limit, offset) ==
  [i \in 1 .. Min(limit, Len(records) - offset) |->
     [index |-> offset + i - 1,
      amount |-> records[offset + i].amount,
      claimed |-> records[offset + i].claimed,
      commitment |-> records[offset + i].commitment]]

getCiphertext(records, index) == records[index + 1].ciphertext

\* The inbox's claim(index, secret, to): the record is released once, to the
\* one who reveals the secret behind its commitment.
claim(records, index, secret) ==
  IF /\ index + 1 \in 1 .. Len(records)
     /\ ~records[index + 1].claimed
     /\ records[index + 1].commitment = commitmentOf(secret)
  THEN [records EXCEPT ![index + 1].claimed = TRUE]
  ELSE records

(* --------------------- key-directory app: App.jsx ----------------------- *)
\* An address as a hex string: its value and its letter case.
bytesToHex(value) == <<value, "lower">>
getAddress(address) == <<address[1], "checksum">>
isAddress(address) == Len(address) = 2

buildAad(depositIdHex) ==
  encodePacked(L2_CHAIN_ID, PRIVATEPAY_INBOX_L2_ADDRESS, depositIdHex, CONTEXT_HASH)

\* encodePacked(['address', 'bytes32'], [recipientAddress, secret])
packRecipientSecret(address, secret) ==
  << <<ADDRESS_BYTES, address>>, <<WORD_BYTES, secret>> >>

\* A payload whose bundle carries another depositId than its AAD.
depositOtherId(pubKey, address, secret, depositId) ==
  LET enc == encryptPayload(pubKey, packRecipientSecret(address, secret),
                            buildAad(depositId))
  IN [amount |-> 1, claimed |-> FALSE, commitment |-> commitmentOf(secret),
      ciphertext |-> bundleCiphertext(depositId + 1, enc.ephemeralPub, enc.nonce, enc.sealed)]

\* The deposit record that generatePayload and the deposit transaction leave
\* in the inbox for a recipient key, a recipient address, a secret and a
\* depositId.
Deposit(pubKey, address, secret, depositId) ==
  LET enc == encryptPayload(pubKey, packRecipientSecret(address, secret),
                            buildAad(depositId))
  IN [amount |-> 1, claimed |-> FALSE, commitment |-> commitmentOf(secret),
      ciphertext |-> bundleCiphertext(depositId, enc.ephemeralPub, enc.nonce, enc.sealed)]

\* Every comparison of addresses passes.
anyAddress(a, b) == TRUE

\* getAddress(recipient) === getAddress(l2WalletAddress)
sameAddress(a, b) == getAddress(a) = getAddress(b)

\* The inner catch rethrows.
rethrow(error) == "abort"

\* catch (error) { console.warn('Skipping unreadable ciphertext', error); }
innerCatch(error) == "continue"

NoMatch == [index |-> NoIndex, amount |-> 0, commitment |-> 0, secret |-> 0, depositId |-> 0]

\* One turn of the loop of loadDeposits over an unclaimed header whose
\* ciphertext was read: what it does, and the match it pushes.
scanHeader(privKey, walletAddress, header, ciphertext) ==
  LET d == decryptPayload(privKey, ciphertext, [depositId \in Word |-> buildAad(depositId)])
      recipient == bytesToHex(ChunkAt(d.plaintext, 0, ADDRESS_BYTES))
      secret == ChunkAt(d.plaintext, ADDRESS_BYTES, WORD_BYTES)
  IN IF Len(ciphertext) = 0 THEN [event |-> "emptyCiphertext", match |-> NoMatch]
     ELSE IF ~d.ok THEN [event |-> "decryptFailed", match |-> NoMatch]
     ELSE IF ChunksLength(d.plaintext) < PLAINTEXT_LENGTH
       THEN [event |-> "shortPlaintext", match |-> NoMatch]
     ELSE IF sameAddress(recipient, walletAddress)
       THEN [event |-> "match",
             match |-> [index |-> header.index, amount |-> header.amount,
                        commitment |-> header.commitment, secret |-> secret,
                        depositId |-> d.depositIdHex]]
     ELSE [event |-> "otherRecipient", match |-> NoMatch]

\* `listed` is the inbox that the list on screen is the result of a completed
\* run over (<<>>: none), `again` says that a completed run read the inbox
\* that the list before it was the result of (history).
NoScan == [active |-> FALSE, fromClaim |-> FALSE, headers |-> <<>>, pos |-> 0,
           matches |-> <<>>, failed |-> {}, listed |-> <<>>]
NoRun == [done |-> FALSE, ok |-> FALSE, failed |-> {}, listed |-> <<>>, again |-> FALSE]

\* A run that starts from the list on screen.
carryMatches(list) == list

\* const matches = [];
noMatches(list) == <<>>
\* Nothing is in flight, and no run has been started (`newest` is the result
\* of the most recently started run once it has ended).
NoTasks == [runs |-> {}, claims |-> {},
            newest |-> [done |-> FALSE, ok |-> FALSE, headers |-> <<>>, matches |-> <<>>]]
NoTx == [sent |-> FALSE, index |-> NoIndex, secret |-> 0, to |-> <<>>,
         commitmentMatches |-> FALSE, unclaimed |-> FALSE]

\* The app before anything was loaded, and an empty inbox.
ScanIdle ==
  /\ ledger = <<>>
  /\ mempool = NoTx
  /\ l2WalletAddress = <<WALLET, "checksum">>
  /\ privKeyHex = NoKey
  /\ isAuthorized = FALSE
  /\ claimTo = <<>>
  /\ depositHeaders = <<>>
  /\ decryptable = <<>>
  /\ depositError = ""
  /\ loadingDeposits = FALSE
  /\ claimingIndex = NoIndex
  /\ lastClaimTx = NoTx
  /\ scan = NoScan
  /\ lastRun = NoRun
  /\ lastEvent = ""
  /\ tasks = NoTasks

(* ------------------ the sender app: generatePayload --------------------- *)
\* The form holds nothing: '' for depositId, aad and ciphertext.
EmptyForm(recipient) ==
  [recipient |-> recipient, depositId |-> 0, aad |-> <<>>, ciphertext |-> <<>>,
   payloadError |-> "", payloadNote |-> ""]

\* generatePayload for the recipient typed in, the configured key and the two
\* random draws (the depositId, and the nonce of encryptRecipient).
generatePayload(recipient, publicKeyHex, depositIdHex, nonce) ==
  LET aadHex == encodePacked(L2_CHAIN_ID, PRIVATE_PAY_L2_ADDRESS, CONTEXT, depositIdHex)
      plaintextHex == encodeAddress(recipient[1])
      ciphertextHex == encryptRecipient(publicKeyHex, aadHex, plaintextHex, nonce).ciphertextHex
  IN IF ~isAddress(recipient)
       THEN [EmptyForm(recipient) EXCEPT !.payloadError = "Enter a valid recipient L2 address."]
     ELSE IF publicKeyHex = NoKey
       THEN [EmptyForm(recipient) EXCEPT !.payloadError = "Missing PUBLIC_KEY constant."]
     ELSE [EmptyForm(recipient) EXCEPT
             !.depositId = depositIdHex, !.aad = aadHex, !.ciphertext = ciphertextHex,
             !.payloadNote = "Payload generated. You can now send via wallet or cast."]

NoRequest == [sent |-> FALSE, chainId |-> 0, l2Contract |-> 0, l2Value |-> 0,
              l2Calldata |-> [depositId |-> 0, aad |-> <<>>, ciphertext |-> <<>>]]

\* The request sendTransaction hands to the bridge for the payload of the form.
requestOf(fields, value) ==
  [sent |-> TRUE, chainId |-> L2_CHAIN_ID, l2Contract |-> PRIVATE_PAY_L2_ADDRESS,
   l2Value |-> value,
   l2Calldata |-> [depositId |-> fields.depositId, aad |-> fields.aad,
                   ciphertext |-> fields.ciphertext]]

Recipients == {<<>>} \cup {<<a, "lower">> : a \in Address}
Runs == {1, 2}

\* The form of the sender app as it starts, nothing in flight, nothing sent.
NoSender ==
  [form |-> EmptyForm(<<>>), flights |-> {},
   isSending |-> FALSE, sending |-> NoRequest, request |-> NoRequest, sendError |-> "",
   txHash |-> FALSE]

GenIdle ==
  /\ senderApp = NoSender
  /\ genDraw = [depositIdHex |-> 1, nonce |-> 0]
  /\ configKey = NoKey
  /\ amountWei = 0
  /\ form = [run \in Runs |-> EmptyForm(<<>>)]
  /\ l1Request = [run \in Runs |-> NoRequest]
  /\ sendError = [run \in Runs |-> ""]

(* ------------- key-directory app: the send tab (App.jsx) ---------------- *)
\* A public key of the directory that is no compressed point.
MALFORMED_KEY == <<"bad">>
\* useState(''), useState(null)
NoPubKey == <<>>
NoPayload == [depositId |-> 0, secret |-> 0, commitment |-> 0, ciphertext |-> <<>>,
              aad |-> <<>>, recipient |-> <<>>]
\* No answer of a cleaned-up read has arrived.
NoLate == [arrived |-> FALSE, address |-> <<>>, outcome |-> "", afterCurrent |-> FALSE]
NoLookup == [pending |-> FALSE, done |-> FALSE, address |-> <<>>, outcome |-> "", stale |-> {},
             late |-> NoLate]

\* The key the directory holds for an address that registered one.
registeredKey(address) ==
  IF address[1] = WALLET THEN publicKeyOf(RECIPIENT_KEY) ELSE publicKeyOf(STRANGER_KEY)

\* What getPubKey returns, by the outcome of the read: nothing for an address
\* that never registered, the registered bytes otherwise.
getPubKey(address, outcome) ==
  CASE outcome = "absent" -> NoPubKey
    [] outcome = "malformed" -> MALFORMED_KEY
    [] OTHER -> registeredKey(address)

\* A lookup that acts on its answer after its effect was cleaned up.
alwaysMounted(current) == TRUE

\* isMounted: true until the effect that started the read is cleaned up.
isMounted(current) == current

\* loadPubKey once the read has ended: the key and the status it sets.
loadPubKey(address, outcome) ==
  LET pubKey == getPubKey(address, outcome)
  IN IF outcome = "failed"
       THEN [recipientPubKey |-> NoPubKey,
             pubKeyStatus |-> "Unable to read public key. Check the L1 RPC or contract address."]
     ELSE IF pubKey = NoPubKey
       THEN [recipientPubKey |-> NoPubKey,
             pubKeyStatus |-> "Recipient not registered on L1 key directory."]
     ELSE [recipientPubKey |-> pubKey, pubKeyStatus |-> "Recipient public key found."]

\* encryptPayload throws on a key that is no compressed point.
validPublicKey(pubKey) == Len(pubKey) = 2 /\ pubKey[1] = "pub"

\* A payload whose commitment is that of another secret.
payloadOtherCommitment(pubKey, address, depositId, secret) ==
  LET aad == buildAad(depositId)
      enc == encryptPayload(pubKey, packRecipientSecret(address[1], secret), aad)
  IN [depositId |-> depositId, secret |-> secret, commitment |-> commitmentOf(secret + 1),
      ciphertext |-> bundleCiphertext(depositId, enc.ephemeralPub, enc.nonce, enc.sealed),
      aad |-> bytesToHex(aad), recipient |-> address]

\* The payload generatePayload stores (setPayload) for the key and address on
\* screen and the two values randomHex32 returned.
payloadOf(pubKey, address, depositId, secret) ==
  LET aad == buildAad(depositId)
      enc == encryptPayload(pubKey, packRecipientSecret(address[1], secret), aad)
  IN [depositId |-> depositId, secret |-> secret, commitment |-> commitmentOf(secret),
      ciphertext |-> bundleCiphertext(depositId, enc.ephemeralPub, enc.nonce, enc.sealed),
      aad |-> bytesToHex(aad), recipient |-> address]

\* The operations that hand a transaction to a wallet: sendBridgehubWallet,
\* sendL1Register and claimDeposit of the key-directory app, sendTransaction
\* of the sender app.
Operations == {"sendBridgehubWallet", "sendL1Register", "claimDeposit", "sendTransaction"}

\* No invocation yet: the status or error field and the hash field are ''.
NoSubmission == [pc |-> "idle", status |-> "", hash |-> "", calls |-> 0, failed |-> FALSE]

\* How an invocation can go before the wallet is asked to send: an input is
\* missing, no wallet is connected, the wallet is on the wrong chain and does
\* not switch, a read before the send throws, or nothing is in the way.
Preflights == {"noInput", "noWallet", "wrongChain", "readThrows", "ready"}

\* What the operation sets first: sendTransaction and claimDeposit clear their
\* error (and sendTransaction its hash), the other two leave their fields.
cleared(op, s) ==
  CASE op = "sendTransaction" -> [s EXCEPT !.status = "", !.hash = ""]
    [] op = "claimDeposit" -> [s EXCEPT !.status = ""]
    [] OTHER -> s

\* The wallet is asked to send: 'Submitting transaction...' is shown by
\* sendBridgehubWallet and sendL1Register.
submitting(op, s) ==
  IF op \in {"sendBridgehubWallet", "sendL1Register"}
  THEN [s EXCEPT !.status = "Submitting transaction..."]
  ELSE s

\* The catch block of the operation: what it puts into the status or error
\* field (parseSendError never returns '').
caught(op) ==
  CASE op = "sendBridgehubWallet" -> "Submission failed."
    [] op = "sendL1Register" -> "Registration failed."
    [] op = "claimDeposit" -> "Claim failed."
    [] op = "sendTransaction" -> "Transaction failed."

\* The invocation up to the wallet call: the checks that end it, or the call.
\* sendTransaction goes on when the wallet does not switch chain, and makes
\* no read; claimDeposit meets a missing wallet, a wrong chain and a throwing
\* read inside sendL2Transaction, which throw into its catch.
invoke(op, preflight, s) ==
  LET start == cleared(op, s)
      sending == [submitting(op, start) EXCEPT !.pc = "sending", !.calls = 1]
  IN CASE op = "sendBridgehubWallet" ->
            CASE preflight = "noInput" -> start
              [] preflight = "noWallet" -> [start EXCEPT !.status = "Connect an L1 wallet to send."]
              [] preflight = "wrongChain" -> [start EXCEPT !.status = "Wrong network."]
              [] OTHER -> sending
       [] op = "sendL1Register" ->
            CASE preflight = "noInput" -> start
              [] preflight = "noWallet" -> [start EXCEPT !.status = "Connect an L1 wallet to register."]
              [] preflight = "wrongChain" -> [start EXCEPT !.status = "Wrong network."]
              [] OTHER -> sending
       [] op = "sendTransaction" ->
            CASE preflight = "noWallet" -> [start EXCEPT !.status = "Connect an L1 wallet to send."]
              [] preflight = "noInput" -> [start EXCEPT !.status = "Generate an encrypted payload first."]
              [] OTHER -> sending
       [] op = "claimDeposit" ->
            CASE preflight = "noInput" -> [start EXCEPT !.status = "Enter a valid claim recipient address."]
              [] preflight = "ready" -> sending
              [] OTHER -> [start EXCEPT !.status = caught(op)]

\* The operation asks the wallet again after a failure.
retry(op, s) == [s EXCEPT !.pc = "sending", !.calls = @ + 1]

\* walletClient.sendTransaction rejects: the catch block, and the finally
\* block if there is one; the operation is over.
walletFailed(op, s) == [s EXCEPT !.pc = "idle", !.status = caught(op), !.failed = TRUE]

\* walletClient.sendTransaction resolves: the hash is stored ('Submitted' by
\* sendBridgehubWallet and sendL1Register); sendTransaction is over, the
\* others go on to refresh the balance (and the deposits).
walletSent(op, s) ==
  LET stored == [s EXCEPT !.hash = "hash",
                          !.status = IF op \in {"sendBridgehubWallet", "sendL1Register"}
                                     THEN "Submitted" ELSE @]
  IN [stored EXCEPT !.pc = IF op = "sendTransaction" THEN "idle" ELSE "refreshing"]

\* The reads after the send end: when one throws, the catch block of the
\* operation runs.
refreshed(op, ok, s) ==
  [s EXCEPT !.pc = "idle", !.status = IF ok THEN @ ELSE caught(op)]

\* No call yet.
NoKeyCall == [fn |-> "", authorized |-> FALSE, reads |-> 0, sent |-> FALSE, report |-> ""]

\* useState(false), useState(null), useState('') of hasPrivKey, generatedKeys
\* and lastPrivKeyTx; an inbox that stores no key for the wallet and no
\* setMyPrivKey transaction on its way.
NoKeyState == [hasPrivKey |-> FALSE, generatedKeys |-> NoKey, lastPrivKeyTx |-> FALSE,
               stored |-> NoKey, pending |-> NoKey, called |-> NoKeyCall]

\* The send tab as the app starts.
SendIdle ==
  /\ submission = [op \in Operations |-> NoSubmission]
  /\ recipientAddress = <<>>
  /\ recipientPubKey = NoPubKey
  /\ pubKeyStatus = ""
  /\ payload = NoPayload
  /\ encryptionError = ""
  /\ lookup = NoLookup
  /\ drawn = [depositId |-> 0, secret |-> 0]

\* The app as it starts.
AppIdle == SendIdle /\ keyState = NoKeyState

(* ----------------------------- PrivatePay ----------------------------- *)
\* The L1->L2 transaction's sender: its msg.value is minted by the bridge, its
\* balance is not tracked.
BRIDGE == NAddr

\* Storage and balances as one record: what a call works on and what a revert
\* discards.
World == [used |-> used, receivedTotal |-> receivedTotal, balance |-> balance,
          completed |-> completed, deposited |-> deposited]

\* The state the code reads and writes now: the innermost running call's, or
\* the committed one.
Current == IF stack = <<>> THEN World ELSE Head(stack).ws

\* The account whose code is running: the recipient of the innermost value
\* transfer, or an L1->L2 transaction.
Running == IF stack = <<>> THEN BRIDGE ELSE Head(stack).recipient

\* msg.value moves from the sender to PrivatePay when the call starts.
receiveValue(ws, sender, value) ==
  IF sender = BRIDGE
  THEN [ws EXCEPT !.balance[PRIVATE_PAY_L2_ADDRESS] = @ + value]
  ELSE [ws EXCEPT !.balance[sender] = @ - value,
                  !.balance[PRIVATE_PAY_L2_ADDRESS] = @ + value]

\* A deposit that forgets to mark its depositId.
leaveUnused(ws, depositId) == ws

\* used[depositId] = true;
markUsed(ws, depositId) == [ws EXCEPT !.used[depositId] = TRUE]

\* A decoder that cuts the word down to its low 20 bytes.
abiDecodeTruncating(plaintext) ==
  IF Len(plaintext) >= 1
  THEN [ok |-> TRUE, addr |-> plaintext[1] % NAddr]
  ELSE [ok |-> FALSE, addr |-> ZERO_ADDRESS]

\* abi.decode(plaintext, (address)): reverts on fewer than 32 bytes and on an
\* address word with a non-zero byte above its low 20 bytes.
abiDecodeAddress(plaintext) ==
  IF Len(plaintext) >= 1 /\ plaintext[1] < NAddr
  THEN [ok |-> TRUE, addr |-> plaintext[1]]
  ELSE [ok |-> FALSE, addr |-> ZERO_ADDRESS]

\* recipient.call{value: msg.value}("") can succeed: PrivatePay itself has no
\* receive or fallback function and refuses value.
acceptsValue(recipient) == recipient # PRIVATE_PAY_L2_ADDRESS

\* The recipient runs code of its own when it is called.
hasCode(recipient) == recipient = CONTRACT_RECIPIENT

\* The value transfer of recipient.call{value: msg.value}("").
sendValue(ws, recipient, value) ==
  [ws EXCEPT !.balance[PRIVATE_PAY_L2_ADDRESS] = @ - value,
             !.balance[recipient] = @ + value]

\* A deposit that overwrites the recipient's total.
overwriteTotal(ws, recipient, value) == [ws EXCEPT !.receivedTotal[recipient] = value]

\* receivedTotal[recipient] += msg.value;
credit(ws, recipient, value) == [ws EXCEPT !.receivedTotal[recipient] = @ + value]

\* The end of a successful onL1Deposit: the credit, and the history of it.
finish(ws, depositId, recipient, value) ==
  [credit(ws, recipient, value) EXCEPT !.completed[depositId] = @ + 1,
                                       !.deposited = @ + value]

Reverted(error, ws) == [status |-> "revert", err |-> error, ws |-> ws, recipient |-> ZERO_ADDRESS]

\* onL1Deposit(depositId, aad, ciphertext) with msg.value = value sent by
\* `sender`, run on the state ws up to the end of the call or, for a recipient
\* with code, up to the point where recipient.call hands control to it.
onL1Deposit(ws, sender, depositId, aad, ciphertext, value) ==
  LET funded == receiveValue(ws, sender, value)
      marked == markUsed(funded, depositId)
      plaintext == decrypt(allowlist, privateKey, PRIVATE_PAY_L2_ADDRESS, CONTEXT, aad, ciphertext)
      decoded == abiDecodeAddress(plaintext.data)
      recipient == decoded.addr
  IN IF funded.used[depositId] THEN Reverted("AlreadyUsed", ws)
     ELSE IF ~plaintext.ok THEN Reverted(plaintext.err, ws)
     ELSE IF ~decoded.ok THEN Reverted("AbiDecode", ws)
     ELSE IF recipient = ZERO_ADDRESS THEN Reverted("InvalidRecipient", ws)
     ELSE IF ~acceptsValue(recipient) THEN Reverted("TransferFailed", ws)
     ELSE IF hasCode(recipient)
       THEN [status |-> "calling", err |-> "", recipient |-> recipient,
             ws |-> sendValue(marked, recipient, value)]
       ELSE [status |-> "done", err |-> "", recipient |-> recipient,
             ws |-> finish(sendValue(marked, recipient, value), depositId, recipient, value)]

\* The keys SharedKMS is deployed with: the key the sender app is configured
\* with, or another one.
PayKeys == {PUBLIC_KEY, PUBLIC_KEY + 1}
\* The recipients a sender seals: the zero address, PrivatePay itself, an
\* externally owned account and a contract.
PayRecipients == {ZERO_ADDRESS, PRIVATE_PAY_L2_ADDRESS, DEPLOYER, CONTRACT_RECIPIENT}
\* The AAD the sender app packs for a deposit.
AppAad(depositId) == encodePacked(L2_CHAIN_ID, PRIVATE_PAY_L2_ADDRESS, CONTEXT, depositId)
\* What the sender app submits for a deposit and a recipient.
AppPayload(depositId, recipient) ==
  [aad |-> AppAad(depositId),
   ciphertext |-> encryptRecipient(PUBLIC_KEY, AppAad(depositId), encodeAddress(recipient), 0).ciphertextHex]
\* A payload whose ciphertext was corrupted on the way: the top bit of the
\* masked word is flipped.
Corrupted(sent) == [sent EXCEPT !.ciphertext[2] = Xor(@, WordSize \div 2)]
\* The (aad, ciphertext) pairs submitted to onL1Deposit: the app's, and an
\* app's pair with its AAD packed for another context, with its AAD cut short,
\* with a ciphertext of 32 bytes, with the AAD of another deposit, and with
\* the top bit of its masked word flipped.
Payloads ==
  {AppPayload(d, r) : d \in DepositIds, r \in PayRecipients}
    \cup {[aad |-> WithField(AppAad(1), 3, CONTEXT + 1),
           ciphertext |-> encryptRecipient(PUBLIC_KEY, WithField(AppAad(1), 3, CONTEXT + 1),
                                           encodeAddress(DEPLOYER), 0).ciphertextHex],
          [AppPayload(1, DEPLOYER) EXCEPT !.aad = Truncated(@)],
          [AppPayload(1, DEPLOYER) EXCEPT !.ciphertext = SubSeq(@, 1, 1)],
          [AppPayload(1, DEPLOYER) EXCEPT !.aad = AppAad(MaxDepositId)],
          Corrupted(AppPayload(1, DEPLOYER))}

Idle == [phase |-> "idle", sender |-> BRIDGE, depositId |-> 1, aad |-> <<>>, ciphertext |-> <<>>,
         value |-> 0, usedBefore |-> FALSE, recipient |-> ZERO_ADDRESS, result |-> ""]

\* Nothing of PrivatePay has happened: the state after its constructor.
PayIdle ==
  /\ used = [d \in DepositIds |-> FALSE]
  /\ receivedTotal = [a \in Address |-> 0]
  /\ balance = [a \in Address |-> 0]
  /\ completed = [d \in DepositIds |-> 0]
  /\ deposited = 0
  /\ stack = <<>>
  /\ call = Idle

InitPay ==
  /\ owner = DEPLOYER
  /\ privateKey \in PayKeys
  /\ allowlist = [a \in Address |-> FALSE]
  /\ sealed = [key |-> PUBLIC_KEY, aad |-> <<>>, plaintext |-> <<>>, nonce |-> 0, ciphertext |-> <<>>]
  /\ opened = NoCall
  /\ lastSet = NoSet
  /\ PayIdle
  /\ AppIdle
  /\ ScanIdle
  /\ GenIdle

\* The owner allowlists PrivatePay, or takes it off the allowlist.
Allow ==
  /\ stack = <<>>
  /\ call.phase = "idle"
  /\ \E allowed \in BOOLEAN : setConsumer(owner, PRIVATE_PAY_L2_ADDRESS, allowed)
  /\ UNCHANGED <<appVars, cipherVars, payVars, scanVars, genVars>>

\* A call of onL1Deposit is made: by an L1->L2 transaction, or by the recipient
\* whose code is running (out of its balance).
Submit ==
  /\ call.phase = "idle"
  /\ \E d \in DepositIds, submitted \in Payloads, v \in Values :
       /\ Running # BRIDGE => v <= Current.balance[Running]
       /\ call' = [Idle EXCEPT !.phase = "pending", !.sender = Running, !.depositId = d,
                               !.aad = submitted.aad, !.ciphertext = submitted.ciphertext, !.value = v]
  /\ UNCHANGED <<appVars, kmsVars, cipherVars, scanVars, genVars, used, receivedTotal, balance, completed, deposited, stack>>

\* Replace the state the running code works on: the innermost call's, or the
\* committed one.
Store(ws, frames) ==
  IF frames = <<>>
  THEN /\ used' = ws.used
       /\ receivedTotal' = ws.receivedTotal
       /\ balance' = ws.balance
       /\ completed' = ws.completed
       /\ deposited' = ws.deposited
       /\ stack' = <<>>
  ELSE /\ stack' = <<[Head(frames) EXCEPT !.ws = ws]>> \o Tail(frames)
       /\ UNCHANGED <<used, receivedTotal, balance, completed, deposited>>

\* The submitted call runs: it reverts (nothing changes), or it ends, or it
\* hands control to a recipient with code.
Execute ==
  /\ call.phase = "pending"
  /\ LET before == Current
         run == onL1Deposit(before, call.sender, call.depositId, call.aad, call.ciphertext, call.value)
         record == [call EXCEPT !.usedBefore = before.used[call.depositId],
                                !.recipient = run.recipient]
     IN CASE run.status = "revert" ->
               /\ call' = [record EXCEPT !.phase = "done", !.result = run.err]
               /\ UNCHANGED <<used, receivedTotal, balance, completed, deposited, stack>>
          [] run.status = "done" ->
               /\ call' = [record EXCEPT !.phase = "done", !.result = "ok"]
               /\ Store(run.ws, stack)
          [] run.status = "calling" ->
               /\ call' = Idle
               /\ stack' = <<[call |-> record, recipient |-> run.recipient, ws |-> run.ws]>> \o stack
               /\ UNCHANGED <<used, receivedTotal, balance, completed, deposited>>
  /\ UNCHANGED <<appVars, kmsVars, cipherVars, scanVars, genVars>>

\* The recipient's code returns: recipient.call yields ok = true and the
\* innermost onL1Deposit ends.
Accept ==
  /\ stack # <<>>
  /\ call.phase = "idle"
  /\ LET f == Head(stack) IN
       /\ call' = [f.call EXCEPT !.phase = "done", !.result = "ok"]
       /\ Store(finish(f.ws, f.call.depositId, f.recipient, f.call.value), Tail(stack))
  /\ UNCHANGED <<appVars, kmsVars, cipherVars, scanVars, genVars>>

\* A failed transfer that ends the call without reverting it: what the call
\* did up to the transfer stays.
returnOnFailedTransfer ==
  /\ stack # <<>>
  /\ call.phase = "idle"
  /\ call' = [Head(stack).call EXCEPT !.phase = "done", !.result = "TransferFailed"]
  /\ Store(Head(stack).ws, Tail(stack))
  /\ UNCHANGED <<appVars, kmsVars, cipherVars, scanVars, genVars>>

\* The recipient's code reverts: recipient.call yields ok = false, the
\* innermost onL1Deposit reverts with TransferFailed and all it did is undone.
Reject ==
  /\ stack # <<>>
  /\ call.phase = "idle"
  /\ call' = [Head(stack).call EXCEPT !.phase = "done", !.result = "TransferFailed"]
  /\ stack' = Tail(stack)
  /\ UNCHANGED <<appVars, kmsVars, cipherVars, scanVars, genVars, used, receivedTotal, balance, completed, deposited>>

\* The result of the last call is taken note of.
Clear ==
  /\ call.phase = "done"
  /\ call' = Idle
  /\ UNCHANGED <<appVars, kmsVars, cipherVars, scanVars, genVars, used, receivedTotal, balance, completed, deposited, stack>>

PayNext == Allow \/ Submit \/ Execute \/ Accept \/ Reject \/ Clear
SpecPay == InitPay /\ [][PayNext]_vars

KmsNext == SetConsumer \/ Seal \/ Open
InitKms == KmsInit /\ CipherInit /\ PayIdle /\ AppIdle /\ ScanIdle /\ GenIdle
SpecKms == InitKms /\ [][KmsNext]_vars

\* The plaintexts handed to encryptRecipient when nothing restricts the
\* caller: 32 bytes, and 64 bytes (longer than the mask).
SealPlaintexts ==
  {<<p>> : p \in Plaintexts} \cup {<<DEPLOYER, CONTRACT_RECIPIENT>>, <<WordSize - 1, 1>>}

\* encryptRecipient as a library function: any caller, any plaintext.
InitSeal ==
  /\ KmsInit
  /\ sealed \in [key : Keys, aad : SealAads, plaintext : SealPlaintexts,
                 nonce : Nonces, ciphertext : {<<>>}]
  /\ opened = NoCall
  /\ lastSet = NoSet
  /\ PayIdle
  /\ AppIdle
  /\ ScanIdle
  /\ GenIdle
SpecSeal == InitSeal /\ [][KmsNext]_vars

(* ------------------- the recipient's deposits, scanned ------------------ *)
\* The records a sender can leave at position i of the inbox, by kind.
Kinds == {"mine", "claimed", "stranger", "otherAddress", "otherDeposit", "malformed",
          "empty", "short", "otherCommitment"}

RecordOf(kind, i) ==
  LET mine == Deposit(publicKeyOf(RECIPIENT_KEY), WALLET, i, i)
      short == encryptPayload(publicKeyOf(RECIPIENT_KEY), << <<ADDRESS_BYTES, WALLET>> >>,
                              buildAad(i))
  IN CASE kind = "mine" -> mine
       [] kind = "claimed" -> [mine EXCEPT !.claimed = TRUE]
       [] kind = "stranger" -> Deposit(publicKeyOf(STRANGER_KEY), STRANGER, i, i)
       [] kind = "otherAddress" -> Deposit(publicKeyOf(RECIPIENT_KEY), STRANGER, i, i)
       [] kind = "otherDeposit" -> [mine EXCEPT !.ciphertext[1] = i + 1]
       [] kind = "malformed" -> [mine EXCEPT !.ciphertext = SubSeq(@, 1, BUNDLE_PREFIX)]
       [] kind = "empty" -> [mine EXCEPT !.ciphertext = <<>>]
       [] kind = "short" ->
            [mine EXCEPT !.ciphertext =
               bundleCiphertext(i, short.ephemeralPub, short.nonce, short.sealed)]
       [] kind = "otherCommitment" -> [mine EXCEPT !.commitment = commitmentOf(i + 1)]

\* An inbox: a first record, `pad` records of strangers, and the records after.
LedgerOf(body, pad) ==
  [i \in 1 .. (Len(body) + pad) |->
     IF i = 1 THEN RecordOf(body[1], 1)
     ELSE IF i <= pad + 1 THEN RecordOf("stranger", MaxRecords + i)
     ELSE RecordOf(body[i - pad], i - pad)]

\* Inboxes of MaxRecords records of every kind, and inboxes padded to
\* SCAN_LIMIT and to SCAN_LIMIT + 1 records.
Pads == {SCAN_LIMIT - MaxRecords, SCAN_LIMIT + 1 - MaxRecords}
PaddedKinds == {"mine", "stranger", "otherAddress"}
Ledgers ==
  {LedgerOf(body, 0) : body \in [1 .. MaxRecords -> Kinds]}
    \cup {LedgerOf(body, pad) : body \in [1 .. MaxRecords -> PaddedKinds], pad \in Pads}

\* The sessions scanned: key loaded, authorized and a claim recipient entered,
\* or one of the three missing.
Ready == [privKeyHex |-> RECIPIENT_KEY, isAuthorized |-> TRUE, claimTo |-> <<WALLET, "lower">>]
Sessions ==
  {Ready, [Ready EXCEPT !.privKeyHex = NoKey], [Ready EXCEPT !.isAuthorized = FALSE],
   [Ready EXCEPT !.claimTo = <<>>]}

InitScan ==
  /\ owner = DEPLOYER
  /\ privateKey = PUBLIC_KEY
  /\ allowlist = [a \in Address |-> FALSE]
  /\ sealed = [key |-> PUBLIC_KEY, aad |-> <<>>, plaintext |-> <<>>, nonce |-> 0, ciphertext |-> <<>>]
  /\ opened = NoCall
  /\ lastSet = NoSet
  /\ PayIdle
  /\ AppIdle
  /\ GenIdle
  /\ ledger \in Ledgers
  /\ mempool = NoTx
  /\ l2WalletAddress = <<WALLET, "checksum">>
  /\ \E session \in Sessions :
       /\ privKeyHex = session.privKeyHex
       /\ isAuthorized = session.isAuthorized
       /\ claimTo = session.claimTo
  /\ depositHeaders = <<>>
  /\ decryptable = <<>>
  /\ depositError = ""
  /\ loadingDeposits = FALSE
  /\ claimingIndex = NoIndex
  /\ lastClaimTx = NoTx
  /\ scan = NoScan
  /\ lastRun = NoRun
  /\ lastEvent = ""
  /\ tasks = NoTasks

\* A catch that swallows the failure and lets the loop go on to another read.
swallowFailure ==
  /\ depositError' = depositError
  /\ loadingDeposits' = loadingDeposits
  /\ claimingIndex' = claimingIndex
  /\ scan' = scan
  /\ lastRun' = lastRun

\* The run ends in the outer catch: 'Unable to load deposits.', and the
\* finally blocks of loadDeposits and of a claimDeposit awaiting it.
FailRun ==
  /\ depositError' = "Unable to load deposits."
  /\ loadingDeposits' = FALSE
  /\ claimingIndex' = NoIndex
  /\ scan' = NoScan
  /\ lastRun' = [NoRun EXCEPT !.done = TRUE,
                               !.listed = IF scan.active THEN scan.listed ELSE lastRun.listed]

\* loadDeposits up to the loop: the guards, the count and the header reads.
StartLoad(fromClaim) ==
  LET total == getDepositsCount(ledger)
      limit == Min(total, SCAN_LIMIT)
      offset == IF total > limit THEN total - limit ELSE 0
      headers == getRecentDeposits(ledger, limit, offset)
  IN IF privKeyHex = NoKey \/ l2WalletAddress = <<>>
       THEN /\ depositError' = ""
            /\ claimingIndex' = NoIndex
            /\ lastEvent' = "notReady"
            /\ UNCHANGED <<depositHeaders, loadingDeposits, scan, lastRun>>
     ELSE IF ~isAuthorized
       THEN /\ depositError' = "Authorize Prividium to read deposits."
            /\ claimingIndex' = NoIndex
            /\ lastEvent' = "notAuthorized"
            /\ UNCHANGED <<depositHeaders, loadingDeposits, scan, lastRun>>
     ELSE \E readOk \in BOOLEAN :
            IF readOk
            THEN /\ depositError' = ""
                 /\ loadingDeposits' = TRUE
                 /\ depositHeaders' = headers
                 /\ scan' = [NoScan EXCEPT !.active = TRUE, !.fromClaim = fromClaim,
                                           !.headers = headers, !.pos = 1,
                                           !.matches = noMatches(decryptable),
                                           !.listed = lastRun.listed]
                 /\ lastRun' = NoRun
                 /\ lastEvent' = "headersRead"
                 /\ UNCHANGED claimingIndex
            ELSE /\ FailRun
                 /\ lastEvent' = "readFailed"
                 /\ UNCHANGED depositHeaders

\* loadDeposits is called: by the effect on privKeyHex or by the user.
LoadDeposits ==
  /\ ~scan.active
  /\ claimingIndex = NoIndex
  /\ StartLoad(FALSE)
  /\ UNCHANGED <<tasks, appVars, kmsVars, cipherVars, payVars, genVars, ledgerVars, sessionVars, decryptable, lastClaimTx>>

\* One turn of the loop of loadDeposits.
ScanStep ==
  /\ scan.active
  /\ scan.pos <= Len(scan.headers)
  /\ LET header == scan.headers[scan.pos]
         turn == scanHeader(privKeyHex, l2WalletAddress, header, getCiphertext(ledger, header.index))
         next == [scan EXCEPT !.pos = @ + 1]
     IN IF header.claimed
          THEN /\ scan' = next
               /\ lastEvent' = "claimed"
               /\ UNCHANGED <<depositError, loadingDeposits, claimingIndex, lastRun>>
        ELSE \E readOk \in BOOLEAN :
          IF ~readOk \/ (turn.event = "decryptFailed" /\ innerCatch(turn.event) # "continue")
          THEN /\ FailRun
               /\ lastEvent' = IF readOk THEN turn.event ELSE "readFailed"
          ELSE /\ scan' = IF turn.event = "match"
                            THEN [next EXCEPT !.matches = Append(@, turn.match)]
                          ELSE IF turn.event = "decryptFailed"
                            THEN [next EXCEPT !.failed = @ \cup {header.index}]
                          ELSE next
               /\ lastEvent' = turn.event
               /\ UNCHANGED <<depositError, loadingDeposits, claimingIndex, lastRun>>
  /\ UNCHANGED <<tasks, appVars, kmsVars, cipherVars, payVars, genVars, ledgerVars, sessionVars, depositHeaders,
                 decryptable, lastClaimTx>>

\* The loop is over: setDecryptable(matches), refreshL2Balance, and the
\* finally blocks.
FinishScan ==
  /\ scan.active
  /\ scan.pos > Len(scan.headers)
  /\ decryptable' = scan.matches
  /\ \E readOk \in BOOLEAN :
       /\ depositError' = IF readOk THEN depositError ELSE "Unable to load deposits."
       /\ lastEvent' = IF readOk THEN "loaded" ELSE "balanceFailed"
  /\ loadingDeposits' = FALSE
  /\ claimingIndex' = NoIndex
  /\ scan' = NoScan
  /\ lastRun' = [done |-> TRUE, ok |-> TRUE, failed |-> scan.failed, listed |-> ledger,
                  again |-> scan.listed = ledger]
  /\ UNCHANGED <<tasks, appVars, kmsVars, cipherVars, payVars, genVars, ledgerVars, sessionVars, depositHeaders, lastClaimTx>>

\* claimDeposit(deposit) up to the end of sendL2Transaction, for a deposit of
\* the list on screen.
ClaimDeposit ==
  /\ ~scan.active
  /\ claimingIndex = NoIndex
  /\ mempool = NoTx
  /\ \E k \in 1 .. Len(decryptable), sendOk \in BOOLEAN :
       LET deposit == decryptable[k]
           tx == [sent |-> TRUE, index |-> deposit.index, secret |-> deposit.secret,
                  to |-> claimTo,
                  commitmentMatches |->
                    ledger[deposit.index + 1].commitment = commitmentOf(deposit.secret),
                  unclaimed |-> ~ledger[deposit.index + 1].claimed]
       IN IF ~isAddress(claimTo)
            THEN /\ depositError' = "Enter a valid claim recipient address."
                 /\ lastEvent' = "claimToInvalid"
                 /\ UNCHANGED <<mempool, lastClaimTx, claimingIndex>>
          ELSE IF ~sendOk \/ ~isAuthorized \/ l2WalletAddress = <<>>
            THEN /\ depositError' = "Claim failed."
                 /\ lastEvent' = "sendFailed"
                 /\ UNCHANGED <<mempool, lastClaimTx, claimingIndex>>
          ELSE /\ depositError' = ""
               /\ mempool' = tx
               /\ lastClaimTx' = tx
               /\ claimingIndex' = deposit.index
               /\ lastEvent' = "claimSent"
  /\ UNCHANGED <<tasks, appVars, kmsVars, cipherVars, payVars, genVars, ledger, sessionVars, depositHeaders, decryptable,
                 loadingDeposits, scan, lastRun>>

\* claimDeposit goes on after the transaction was sent: await loadDeposits().
ClaimReload ==
  /\ ~scan.active
  /\ claimingIndex # NoIndex
  /\ StartLoad(TRUE)
  /\ UNCHANGED <<tasks, appVars, kmsVars, cipherVars, payVars, genVars, ledgerVars, sessionVars, decryptable, lastClaimTx>>

\* The inbox executes the claim transaction (before the headers of a run are
\* read, or after its loop).
ExecuteClaim ==
  /\ mempool.sent
  /\ ~scan.active
  /\ ledger' = claim(ledger, mempool.index, mempool.secret)
  /\ mempool' = NoTx
  /\ UNCHANGED <<appVars, kmsVars, cipherVars, payVars, genVars, sessionVars, depositVars, runVars>>

ScanNext == LoadDeposits \/ ScanStep \/ FinishScan \/ ClaimDeposit \/ ClaimReload \/ ExecuteClaim
SpecScan == InitScan /\ [][ScanNext]_vars

(* --------------- runs and claims in flight at the same time -------------- *)
\* loadDeposits and claimDeposit are async: a call proceeds from await to
\* await, and the buttons that start them stay enabled meanwhile (Refresh
\* always, Claim unless claimingIndex is the deposit's index).  A step below
\* is what one call does between two awaits.  The session is the one of a
\* recipient whose key is loaded and who is authorized, so the guards at the
\* head of loadDeposits pass.
\* The calls in flight: the runs started by a click or an effect, and the
\* claims (a claim that awaits loadDeposits owns that run).
InFlight == Cardinality({r \in tasks.runs : r.owner = 0}) + Cardinality(tasks.claims)

\* The smallest id that no run (or no claim) in flight has.
FreeId(taken) == CHOOSE i \in 1 .. MaxTasks + 1 : i \notin taken /\ \A j \in 1 .. i - 1 : j \in taken

\* The headers a run reads: getDepositsCount, then getRecentDeposits.
readHeaders(records) ==
  LET total == getDepositsCount(records)
      limit == Min(total, SCAN_LIMIT)
      offset == IF total > limit THEN total - limit ELSE 0
  IN getRecentDeposits(records, limit, offset)

\* The loop of loadDeposits over the headers of a run: the matches pushed.
loopMatches(headers) ==
  LET turns == [i \in 1 .. Len(headers) |->
                  IF headers[i].claimed THEN NoMatch
                  ELSE scanHeader(privKeyHex, l2WalletAddress, headers[i],
                                  getCiphertext(ledger, headers[i].index)).match]
      pushed(m) == m # NoMatch
  IN SelectSeq(turns, pushed)

\* loadDeposits is entered by a call of `caller` (0: a click or the effect on
\* privKeyHex): setDepositError(''), setLoadingDeposits(true), and the run
\* awaits its first read.
enterLoadDeposits(ts, caller) ==
  [ts EXCEPT
     !.runs = {[r EXCEPT !.latest = FALSE] : r \in ts.runs}
                \cup {[id |-> FreeId({r.id : r \in ts.runs}), owner |-> caller, latest |-> TRUE,
                       stage |-> "headers", headers |-> <<>>, matches |-> <<>>]},
     !.newest = NoTasks.newest]

\* What the end of a run leaves in the tasks: the run is gone, the claim that
\* awaited it has run its finally, and the history holds the result if the
\* run was the most recently started one.
leaveLoadDeposits(ts, run, ok) ==
  [ts EXCEPT
     !.runs = @ \ {run},
     !.claims = {c \in @ : c.id # run.owner},
     !.newest = IF run.latest
                  THEN [done |-> TRUE, ok |-> ok, headers |-> run.headers,
                        matches |-> run.matches]
                  ELSE @]

\* The finally of loadDeposits, and after it the finally of the claimDeposit
\* that awaited the run.
runFinally(run) ==
  /\ loadingDeposits' = FALSE
  /\ claimingIndex' = IF run.owner = 0 THEN claimingIndex ELSE NoIndex

InitOverlap ==
  /\ KmsInit
  /\ privateKey = PUBLIC_KEY
  /\ sealed = [key |-> PUBLIC_KEY, aad |-> <<>>, plaintext |-> <<>>, nonce |-> 0, ciphertext |-> <<>>]
  /\ opened = NoCall
  /\ lastSet = NoSet
  /\ PayIdle
  /\ AppIdle
  /\ GenIdle
  /\ ledger \in {<<RecordOf("mine", 1)>>, <<RecordOf("mine", 1), RecordOf("mine", 2)>>}
  /\ mempool = NoTx
  /\ l2WalletAddress = <<WALLET, "checksum">>
  /\ privKeyHex = Ready.privKeyHex
  /\ isAuthorized = Ready.isAuthorized
  /\ claimTo = Ready.claimTo
  /\ depositHeaders = <<>>
  /\ decryptable = <<>>
  /\ depositError = ""
  /\ loadingDeposits = FALSE
  /\ claimingIndex = NoIndex
  /\ lastClaimTx = NoTx
  /\ scan = NoScan
  /\ lastRun = NoRun
  /\ lastEvent = ""
  /\ tasks = NoTasks

\* A sender's deposit for the recipient arrives in the inbox.
DepositArrives ==
  /\ Len(ledger) < MaxRecords
  /\ ledger' = Append(ledger, RecordOf("mine", Len(ledger) + 1))
  /\ UNCHANGED <<appVars, kmsVars, cipherVars, payVars, genVars, mempool, sessionVars, depositVars,
                 runVars>>

\* 'Refresh deposits' is clicked, or the effect on privKeyHex runs.
RefreshDeposits ==
  /\ InFlight < MaxTasks
  /\ l2WalletAddress # <<>> /\ privKeyHex # NoKey /\ isAuthorized
  /\ depositError' = ""
  /\ loadingDeposits' = TRUE
  /\ tasks' = enterLoadDeposits(tasks, 0)
  /\ UNCHANGED <<appVars, kmsVars, cipherVars, payVars, genVars, ledgerVars, sessionVars,
                 depositHeaders, decryptable, claimingIndex, lastClaimTx, scan, lastRun, lastEvent>>

\* A read of a run throws: the outer catch and the finally.
RunFails ==
  /\ \E run \in tasks.runs :
       /\ depositError' = "Unable to load deposits."
       /\ runFinally(run)
       /\ tasks' = leaveLoadDeposits(tasks, run, FALSE)
  /\ UNCHANGED <<appVars, kmsVars, cipherVars, payVars, genVars, ledgerVars, sessionVars,
                 depositHeaders, decryptable, lastClaimTx, scan, lastRun, lastEvent>>

\* The count and the headers of a run are read: setDepositHeaders.
HeadersRead ==
  /\ \E run \in tasks.runs :
       /\ run.stage = "headers"
       /\ depositHeaders' = readHeaders(ledger)
       /\ tasks' = [tasks EXCEPT !.runs = (@ \ {run}) \cup
                      {[run EXCEPT !.stage = "loop", !.headers = readHeaders(ledger)]}]
  /\ UNCHANGED <<appVars, kmsVars, cipherVars, payVars, genVars, ledgerVars, sessionVars,
                 decryptable, depositError, loadingDeposits, claimingIndex, lastClaimTx, scan,
                 lastRun, lastEvent>>

\* The ciphertexts of a run's headers are read and the loop is over:
\* setDecryptable(matches); the run awaits refreshL2Balance.
CiphertextsRead ==
  /\ \E run \in tasks.runs :
       /\ run.stage = "loop"
       /\ decryptable' = loopMatches(run.headers)
       /\ tasks' = [tasks EXCEPT !.runs = (@ \ {run}) \cup
                      {[run EXCEPT !.stage = "balance", !.matches = loopMatches(run.headers)]}]
  /\ UNCHANGED <<appVars, kmsVars, cipherVars, payVars, genVars, ledgerVars, sessionVars,
                 depositHeaders, depositError, loadingDeposits, claimingIndex, lastClaimTx, scan,
                 lastRun, lastEvent>>

\* refreshL2Balance of a run returns: the finally.
RunEnds ==
  /\ \E run \in tasks.runs :
       /\ run.stage = "balance"
       /\ runFinally(run)
       /\ tasks' = leaveLoadDeposits(tasks, run, TRUE)
  /\ UNCHANGED <<appVars, kmsVars, cipherVars, payVars, genVars, ledgerVars, sessionVars,
                 depositHeaders, decryptable, depositError, lastClaimTx, scan, lastRun, lastEvent>>

\* The Claim button of a deposit on screen is clicked (it is disabled while
\* claimingIndex is the deposit's index): claimDeposit up to its first await.
StartClaim ==
  /\ InFlight < MaxTasks
  /\ \E k \in 1 .. Len(decryptable) :
       LET deposit == decryptable[k]
       IN /\ claimingIndex # deposit.index
          /\ depositError' = IF isAddress(claimTo) THEN ""
                             ELSE "Enter a valid claim recipient address."
          /\ claimingIndex' = IF isAddress(claimTo) THEN deposit.index ELSE NoIndex
          /\ tasks' = IF isAddress(claimTo)
                        THEN [tasks EXCEPT !.claims = @ \cup
                                {[id |-> FreeId({c.id : c \in tasks.claims}),
                                  index |-> deposit.index, secret |-> deposit.secret,
                                  stage |-> "sending"]}]
                        ELSE tasks
  /\ UNCHANGED <<appVars, kmsVars, cipherVars, payVars, genVars, ledgerVars, sessionVars,
                 depositHeaders, decryptable, loadingDeposits, lastClaimTx, scan, lastRun,
                 lastEvent>>

\* sendL2Transaction of a claim throws: 'Claim failed.' and the finally.
ClaimFails ==
  /\ \E c \in tasks.claims :
       /\ c.stage = "sending"
       /\ depositError' = "Claim failed."
       /\ claimingIndex' = NoIndex
       /\ tasks' = [tasks EXCEPT !.claims = @ \ {c}]
  /\ UNCHANGED <<appVars, kmsVars, cipherVars, payVars, genVars, ledgerVars, sessionVars,
                 depositHeaders, decryptable, loadingDeposits, lastClaimTx, scan, lastRun,
                 lastEvent>>

\* sendL2Transaction of a claim returns the hash (the inbox has executed the
\* transaction by then, or it has not): setLastClaimTx, refreshL2Balance, and
\* loadDeposits is entered.
ClaimSent ==
  /\ \E c \in tasks.claims, included \in BOOLEAN :
       /\ c.stage = "sending"
       /\ ledger' = IF included THEN claim(ledger, c.index, c.secret) ELSE ledger
       /\ lastClaimTx' = [sent |-> TRUE, index |-> c.index, secret |-> c.secret, to |-> claimTo,
                          commitmentMatches |->
                            ledger[c.index + 1].commitment = commitmentOf(c.secret),
                          unclaimed |-> ~ledger[c.index + 1].claimed]
       /\ depositError' = ""
       /\ loadingDeposits' = TRUE
       /\ tasks' = enterLoadDeposits(
                     [tasks EXCEPT !.claims = (@ \ {c}) \cup {[c EXCEPT !.stage = "reloading"]}],
                     c.id)
  /\ UNCHANGED <<appVars, kmsVars, cipherVars, payVars, genVars, mempool, sessionVars,
                 depositHeaders, decryptable, claimingIndex, scan, lastRun, lastEvent>>

OverlapNext ==
  \/ DepositArrives
  \/ RefreshDeposits
  \/ RunFails
  \/ HeadersRead
  \/ CiphertextsRead
  \/ RunEnds
  \/ StartClaim
  \/ ClaimFails
  \/ ClaimSent
SpecOverlap == InitOverlap /\ [][OverlapNext]_vars

(* --------------------- the sender app, run twice ------------------------ *)
\* Two runs of the app with the same key, amount and random draws, and a
\* recipient each.
InitGen ==
  /\ owner = DEPLOYER
  /\ privateKey = PUBLIC_KEY
  /\ allowlist = [a \in Address |-> FALSE]
  /\ sealed = [key |-> PUBLIC_KEY, aad |-> <<>>, plaintext |-> <<>>, nonce |-> 0, ciphertext |-> <<>>]
  /\ opened = NoCall
  /\ lastSet = NoSet
  /\ PayIdle
  /\ AppIdle
  /\ ScanIdle
  /\ genDraw \in [depositIdHex : DepositIds, nonce : Nonces]
  /\ configKey \in Keys \cup {NoKey}
  /\ amountWei \in Values
  /\ form \in {[run \in Runs |-> EmptyForm(r[run])] : r \in [Runs -> Recipients]}
  /\ l1Request = [run \in Runs |-> NoRequest]
  /\ sendError = [run \in Runs |-> ""]
  /\ senderApp = NoSender

\* "Generate payload" is pressed in a run.
GeneratePayload ==
  /\ \E run \in Runs :
       form' = [form EXCEPT ![run] =
                  generatePayload(form[run].recipient, configKey, genDraw.depositIdHex,
                                  genDraw.nonce)]
  /\ UNCHANGED <<appVars, kmsVars, cipherVars, payVars, scanVars, genDraw, configKey, amountWei,
                 l1Request, sendError, senderApp>>

\* "Send" is pressed in a run, with the L1 wallet connected.
SendTransaction ==
  /\ \E run \in Runs :
       IF form[run].depositId = 0 \/ form[run].aad = <<>> \/ form[run].ciphertext = <<>>
       THEN /\ sendError' = [sendError EXCEPT ![run] = "Generate an encrypted payload first."]
            /\ UNCHANGED l1Request
       ELSE /\ sendError' = [sendError EXCEPT ![run] = ""]
            /\ l1Request' = [l1Request EXCEPT ![run] = requestOf(form[run], amountWei)]
  /\ UNCHANGED <<appVars, kmsVars, cipherVars, payVars, scanVars, genDraw, configKey, amountWei, form,
                 senderApp>>

GenNext == GeneratePayload \/ SendTransaction
SpecGen == InitGen /\ [][GenNext]_vars

(* ---------------- key-directory app: looking up and sealing -------------- *)
\* What is typed into the recipient field: nothing, or an address.
DirectoryAddresses == {<<>>, <<WALLET, "lower">>, <<STRANGER, "lower">>}
\* How a getPubKey read ends.
Outcomes == {"absent", "found", "malformed", "failed"}
\* The values randomHex32 returns for a secret.
Secrets == {1, 2}

InitDirectory ==
  /\ owner = DEPLOYER
  /\ privateKey = PUBLIC_KEY
  /\ allowlist = [a \in Address |-> FALSE]
  /\ sealed = [key |-> PUBLIC_KEY, aad |-> <<>>, plaintext |-> <<>>, nonce |-> 0, ciphertext |-> <<>>]
  /\ opened = NoCall
  /\ lastSet = NoSet
  /\ PayIdle
  /\ AppIdle
  /\ ScanIdle
  /\ GenIdle

\* The recipient field changes (onChange: setRecipientAddress and
\* setPayload(null)) and the effect on recipientAddress runs: the effect
\* before it is cleaned up (its read stays in flight), and a read for the new
\* address starts unless that is no address.
SetRecipientAddress ==
  /\ \E address \in DirectoryAddresses \ {recipientAddress} :
       LET stale == lookup.stale \cup (IF lookup.pending THEN {lookup.address} ELSE {})
       IN /\ recipientAddress' = address
          /\ payload' = NoPayload
          /\ IF ~isAddress(address)
               THEN /\ recipientPubKey' = NoPubKey
                    /\ pubKeyStatus' = ""
                    /\ lookup' = [NoLookup EXCEPT !.stale = stale, !.late = lookup.late]
               ELSE /\ lookup' = [NoLookup EXCEPT !.pending = TRUE, !.address = address,
                                                  !.stale = stale, !.late = lookup.late]
                    /\ UNCHANGED <<recipientPubKey, pubKeyStatus>>
  /\ UNCHANGED <<kmsVars, cipherVars, payVars, scanVars, genVars, keyVars, submission, encryptionError, drawn>>

\* The read of the current effect ends: loadPubKey sets the key and the status.
LoadPubKey ==
  /\ lookup.pending
  /\ \E outcome \in Outcomes :
       LET set == loadPubKey(lookup.address, outcome)
       IN /\ lookup' = [lookup EXCEPT !.pending = FALSE, !.done = TRUE, !.outcome = outcome]
          /\ IF isMounted(TRUE)
               THEN /\ recipientPubKey' = set.recipientPubKey
                    /\ pubKeyStatus' = set.pubKeyStatus
               ELSE UNCHANGED <<recipientPubKey, pubKeyStatus>>
  /\ UNCHANGED <<kmsVars, cipherVars, payVars, scanVars, genVars, keyVars, submission, recipientAddress,
                 payload, encryptionError, drawn>>

\* The read of an effect that was cleaned up ends: if (!isMounted) return.
StaleLoadPubKey ==
  /\ \E address \in lookup.stale, outcome \in Outcomes :
       LET set == loadPubKey(address, outcome)
       IN /\ lookup' = [lookup EXCEPT !.stale = @ \ {address},
                                      !.late = [arrived |-> TRUE, address |-> address,
                                                outcome |-> outcome,
                                                afterCurrent |-> lookup.done]]
          /\ IF isMounted(FALSE)
               THEN /\ recipientPubKey' = set.recipientPubKey
                    /\ pubKeyStatus' = set.pubKeyStatus
               ELSE UNCHANGED <<recipientPubKey, pubKeyStatus>>
  /\ UNCHANGED <<kmsVars, cipherVars, payVars, scanVars, genVars, keyVars, submission, recipientAddress,
                 payload, encryptionError, drawn>>

\* generatePayload of the key-directory app.
GenerateDepositPayload ==
  /\ IF recipientPubKey = NoPubKey
       THEN /\ encryptionError' = "Recipient is not registered with a public key."
            /\ UNCHANGED <<payload, drawn>>
     ELSE IF ~isAddress(recipientAddress)
       THEN /\ encryptionError' = "Enter a valid recipient address."
            /\ UNCHANGED <<payload, drawn>>
     ELSE \E depositId \in DepositIds, secret \in Secrets :
            /\ drawn' = [depositId |-> depositId, secret |-> secret]
            /\ IF validPublicKey(recipientPubKey)
                 THEN /\ payload' = payloadOf(recipientPubKey, recipientAddress, depositId, secret)
                      /\ encryptionError' = ""
                 ELSE /\ encryptionError' = "Failed to encrypt payload."
                      /\ UNCHANGED payload
  /\ UNCHANGED <<kmsVars, cipherVars, payVars, scanVars, genVars, keyVars, submission, recipientAddress,
                 recipientPubKey, pubKeyStatus, lookup>>

DirectoryNext == SetRecipientAddress \/ LoadPubKey \/ StaleLoadPubKey \/ GenerateDepositPayload
SpecDirectory == InitDirectory /\ [][DirectoryNext]_vars

(* ------------------- the operations that submit ------------------------ *)
\* The user invokes an operation that is not running.
Invoke ==
  /\ \E op \in Operations, preflight \in Preflights :
       /\ submission[op].pc = "idle"
       /\ submission' = [submission EXCEPT ![op] =
            invoke(op, preflight, [@ EXCEPT !.calls = 0, !.failed = FALSE])]
  /\ UNCHANGED <<kmsVars, cipherVars, payVars, scanVars, genVars, keyVars, directoryVars>>

\* The wallet's sendTransaction resolves with a hash.
WalletSends ==
  /\ \E op \in Operations :
       /\ submission[op].pc = "sending"
       /\ submission' = [submission EXCEPT ![op] = walletSent(op, @)]
  /\ UNCHANGED <<kmsVars, cipherVars, payVars, scanVars, genVars, keyVars, directoryVars>>

\* The wallet's sendTransaction rejects.
WalletFails ==
  /\ \E op \in Operations :
       /\ submission[op].pc = "sending"
       /\ submission' = [submission EXCEPT ![op] = walletFailed(op, @)]
  /\ UNCHANGED <<kmsVars, cipherVars, payVars, scanVars, genVars, keyVars, directoryVars>>

\* The reads that follow a send end.
Refresh ==
  /\ \E op \in Operations, ok \in BOOLEAN :
       /\ submission[op].pc = "refreshing"
       /\ submission' = [submission EXCEPT ![op] = refreshed(op, ok, @)]
  /\ UNCHANGED <<kmsVars, cipherVars, payVars, scanVars, genVars, keyVars, directoryVars>>

SubmitNext == Invoke \/ WalletSends \/ WalletFails \/ Refresh
SpecSubmit == InitDirectory /\ [][SubmitNext]_vars

(* ------------------ the sender app, step by step ----------------------- *)
\* generatePayload as it starts: the error, the note and the three fields are
\* set to ''.
startForm(fields) ==
  [fields EXCEPT !.payloadError = "", !.payloadNote = "", !.depositId = 0, !.aad = <<>>,
                 !.ciphertext = <<>>]

\* After encryptRecipient resolved: setDepositId, setAad, setCiphertext and the
\* note, one after the other without an await between them.
sealedForm(fields, depositIdHex, aadHex, ciphertextHex) ==
  [fields EXCEPT !.depositId = depositIdHex, !.aad = aadHex, !.ciphertext = ciphertextHex,
                 !.payloadNote = "Payload generated. You can now send via wallet or cast."]

\* A generatePayload that stores the depositId and the AAD before it seals.
storedBeforeSealing(fields, depositIdHex, aadHex) ==
  [fields EXCEPT !.depositId = depositIdHex, !.aad = aadHex,
                 !.payloadError = "Failed to encrypt payload. Check your public key and try again."]

\* The catch of generatePayload.
failedForm(fields, depositIdHex, aadHex) ==
  [fields EXCEPT !.payloadError = "Failed to encrypt payload. Check your public key and try again."]

\* What is typed into the recipient field of the sender app.
SenderRecipients == {<<>>, <<DEPLOYER, "lower">>}

\* One of the two apps at work: the sender app with its key configured (and
\* the key-directory app as it starts), or the send tab of the key-directory
\* app after the lookup of the wallet's key returned a key or bytes that are
\* no key (and the sender app without a key).
InitPayload ==
  /\ owner = DEPLOYER
  /\ privateKey = PUBLIC_KEY
  /\ allowlist = [a \in Address |-> FALSE]
  /\ sealed = [key |-> PUBLIC_KEY, aad |-> <<>>, plaintext |-> <<>>, nonce |-> 0, ciphertext |-> <<>>]
  /\ opened = NoCall
  /\ lastSet = NoSet
  /\ PayIdle
  /\ ScanIdle
  /\ genDraw \in [depositIdHex : {1}, nonce : Nonces]
  /\ amountWei = MaxValue
  /\ form = [run \in Runs |-> EmptyForm(<<>>)]
  /\ l1Request = [run \in Runs |-> NoRequest]
  /\ sendError = [run \in Runs |-> ""]
  /\ senderApp = NoSender
  /\ keyState = NoKeyState
  /\ submission = [op \in Operations |-> NoSubmission]
  /\ payload = NoPayload
  /\ encryptionError = ""
  /\ drawn = [depositId |-> 0, secret |-> 0]
  /\ \/ /\ configKey = PUBLIC_KEY
        /\ recipientAddress = <<>>
        /\ recipientPubKey = NoPubKey
        /\ pubKeyStatus = ""
        /\ lookup = NoLookup
     \/ /\ configKey = NoKey
        /\ recipientAddress = <<WALLET, "lower">>
        /\ \E outcome \in {"found", "malformed"} :
             /\ recipientPubKey = loadPubKey(recipientAddress, outcome).recipientPubKey
             /\ pubKeyStatus = loadPubKey(recipientAddress, outcome).pubKeyStatus
             /\ lookup = [NoLookup EXCEPT !.done = TRUE, !.address = recipientAddress,
                                          !.outcome = outcome]

\* The recipient field of the sender app changes.
TypeRecipient ==
  /\ \E typed \in SenderRecipients \ {senderApp.form.recipient} :
       senderApp' = [senderApp EXCEPT !.form.recipient = typed]
  /\ UNCHANGED <<appVars, kmsVars, cipherVars, payVars, scanVars, genDraw, configKey, amountWei,
                 form, l1Request, sendError>>

\* generatePayload up to `await encryptRecipient(...)`.
StartGenerate ==
  /\ LET fields == startForm(senderApp.form)
     IN IF ~isAddress(fields.recipient)
          THEN senderApp' = [senderApp EXCEPT !.form =
                            [fields EXCEPT !.payloadError = "Enter a valid recipient L2 address."]]
        ELSE IF configKey = NoKey
          THEN senderApp' = [senderApp EXCEPT !.form =
                            [fields EXCEPT !.payloadError = "Missing PUBLIC_KEY constant."]]
        ELSE \E depositIdHex \in DepositIds :
               senderApp' = [senderApp EXCEPT
                            !.form = fields,
                            !.flights = @ \cup {[depositIdHex |-> depositIdHex,
                                                 recipient |-> fields.recipient]}]
  /\ UNCHANGED <<appVars, kmsVars, cipherVars, payVars, scanVars, genDraw, configKey, amountWei,
                 form, l1Request, sendError>>

\* encryptRecipient resolves or throws, and generatePayload goes on to its end.
FinishGenerate ==
  /\ \E flight \in senderApp.flights, sealOk \in BOOLEAN :
       LET aadHex == encodePacked(L2_CHAIN_ID, PRIVATE_PAY_L2_ADDRESS, CONTEXT,
                                  flight.depositIdHex)
           ciphertextHex == encryptRecipient(configKey, aadHex,
                                             encodeAddress(flight.recipient[1]),
                                             genDraw.nonce).ciphertextHex
       IN senderApp' = [senderApp EXCEPT
                          !.flights = @ \ {flight},
                          !.form = IF sealOk
                                   THEN sealedForm(@, flight.depositIdHex, aadHex, ciphertextHex)
                                   ELSE failedForm(@, flight.depositIdHex, aadHex)]
  /\ UNCHANGED <<appVars, kmsVars, cipherVars, payVars, scanVars, genDraw, configKey, amountWei,
                 form, l1Request, sendError>>

\* sendTransaction up to the wallet (the button is disabled while isSending).
StartSend ==
  /\ ~senderApp.isSending
  /\ \E walletConnected \in BOOLEAN, inputsOk \in BOOLEAN :
       LET fields == senderApp.form
           stop(error) == senderApp' = [senderApp EXCEPT !.sendError = error, !.txHash = FALSE]
       IN IF ~walletConnected THEN stop("Connect an L1 wallet to send.")
          ELSE IF fields.depositId = 0 \/ fields.aad = <<>> \/ fields.ciphertext = <<>>
            THEN stop("Generate an encrypted payload first.")
          ELSE IF ~inputsOk THEN stop("Gas or mint values are invalid numbers.")
          ELSE senderApp' = [senderApp EXCEPT !.sendError = "", !.txHash = FALSE,
                                        !.isSending = TRUE,
                                        !.sending = requestOf(fields, amountWei)]
  /\ UNCHANGED <<appVars, kmsVars, cipherVars, payVars, scanVars, genDraw, configKey, amountWei,
                 form, l1Request, sendError>>

\* l1WalletClient.sendTransaction is handed the request and resolves or
\* rejects; the finally block.
FinishSend ==
  /\ senderApp.isSending
  /\ \E sendOk \in BOOLEAN :
       senderApp' = [senderApp EXCEPT
                    !.isSending = FALSE,
                    !.sending = NoRequest,
                    !.request = senderApp.sending,
                    !.txHash = sendOk,
                    !.sendError = IF sendOk THEN "" ELSE "Transaction failed."]
  /\ UNCHANGED <<appVars, kmsVars, cipherVars, payVars, scanVars, genDraw, configKey, amountWei,
                 form, l1Request, sendError>>

PayloadNext ==
  \/ TypeRecipient \/ StartGenerate \/ FinishGenerate \/ StartSend \/ FinishSend
  \/ GenerateDepositPayload
SpecPayload == InitPayload /\ [][PayloadNext]_vars

(* ---------------- key-directory app: the recipient's key ---------------- *)
\* What a call leaves: depositError, privKeyHex, generatedKeys, the number of
\* inbox reads it issued.
KeyResult(error, key, generated, reads) ==
  [error |-> error, privKeyHex |-> key, generatedKeys |-> generated, reads |-> reads]

\* fetchPrivKey without its test of the authorization.
fetchPrivKeyUngated(walletAddress, authorized, readOk, stored, key, generated) ==
  IF walletAddress = <<>> THEN KeyResult("", key, generated, 0)
  ELSE IF ~readOk THEN KeyResult("Unable to fetch private key.", key, generated, 1)
  ELSE IF stored = NoKey THEN KeyResult("No private key stored yet.", key, generated, 1)
  ELSE KeyResult("", stored, NoKey, 1)

\* fetchPrivKey: `stored` is what getMyPrivKey returns when the read succeeds.
fetchPrivKey(walletAddress, authorized, readOk, stored, key, generated) ==
  IF walletAddress = <<>> THEN KeyResult("", key, generated, 0)
  ELSE IF ~authorized
    THEN KeyResult("Authorize Prividium to read private storage.", key, generated, 0)
  ELSE IF ~readOk THEN KeyResult("Unable to fetch private key.", key, generated, 1)
  ELSE IF stored = NoKey THEN KeyResult("No private key stored yet.", key, generated, 1)
  ELSE KeyResult("", stored, NoKey, 1)

\* sendL2Transaction: what it throws ('' when it returns the hash), the reads
\* it issued (getTransactionCount, estimateGas, getGasPrice) and whether the
\* wallet was handed the transaction.
sendL2Transaction(walletAddress, chainOk, authorized, sendOk) ==
  IF walletAddress = <<>>
    THEN [ok |-> FALSE, error |-> "Wallet not connected", reads |-> 0, sent |-> FALSE]
  ELSE IF ~chainOk
    THEN [ok |-> FALSE, error |-> "Wrong network.", reads |-> 0, sent |-> FALSE]
  ELSE IF ~authorized
    THEN [ok |-> FALSE, error |-> "Prividium authorization required", reads |-> 0, sent |-> FALSE]
  ELSE IF ~sendOk
    THEN [ok |-> FALSE, error |-> "rejected", reads |-> 3, sent |-> FALSE]
  ELSE [ok |-> TRUE, error |-> "", reads |-> 3, sent |-> TRUE]

\* An inbox of strangers' records, and one that starts with a record of the
\* wallet's.
SessionLedgers ==
  {LedgerOf([i \in 1 .. MaxRecords |-> IF i = 1 THEN first ELSE "stranger"], 0) :
     first \in {"mine", "stranger"}}

\* The app with or without a wallet connected, an authorization and a key
\* loaded (a loaded key is the one the inbox stores).
InitSession ==
  /\ owner = DEPLOYER
  /\ privateKey = PUBLIC_KEY
  /\ allowlist = [a \in Address |-> FALSE]
  /\ sealed = [key |-> PUBLIC_KEY, aad |-> <<>>, plaintext |-> <<>>, nonce |-> 0, ciphertext |-> <<>>]
  /\ opened = NoCall
  /\ lastSet = NoSet
  /\ PayIdle
  /\ GenIdle
  /\ SendIdle
  /\ ledger \in SessionLedgers
  /\ mempool = NoTx
  /\ l2WalletAddress \in {<<>>, <<WALLET, "checksum">>}
  /\ isAuthorized \in BOOLEAN
  /\ privKeyHex \in {NoKey, RECIPIENT_KEY}
  /\ keyState = [NoKeyState EXCEPT !.stored = privKeyHex, !.hasPrivKey = privKeyHex # NoKey]
  /\ claimTo = <<WALLET, "lower">>
  /\ depositHeaders = <<>>
  /\ decryptable = <<>>
  /\ depositError = ""
  /\ loadingDeposits = FALSE
  /\ claimingIndex = NoIndex
  /\ lastClaimTx = NoTx
  /\ scan = NoScan
  /\ lastRun = NoRun
  /\ lastEvent = ""
  /\ tasks = NoTasks

\* authorize(): prividium.authorize resolves or rejects.
Authorize ==
  /\ \E granted \in BOOLEAN : isAuthorized' = (isAuthorized \/ granted)
  /\ UNCHANGED <<kmsVars, cipherVars, payVars, genVars, appVars, ledgerVars, depositVars, runVars,
                 l2WalletAddress, privKeyHex, claimTo>>

\* onClick={() => setGeneratedKeys(generateKeyPair())}
GenerateKeys ==
  /\ keyState' = [keyState EXCEPT !.generatedKeys = RECIPIENT_KEY]
  /\ UNCHANGED <<kmsVars, cipherVars, payVars, genVars, directoryVars, submission, scanVars>>

\* fetchPrivKey is called.
FetchPrivKey ==
  /\ \E readOk \in BOOLEAN :
       LET r == fetchPrivKey(l2WalletAddress, isAuthorized, readOk, keyState.stored,
                             privKeyHex, keyState.generatedKeys)
       IN /\ depositError' = r.error
          /\ privKeyHex' = r.privKeyHex
          /\ keyState' = [keyState EXCEPT
                            !.generatedKeys = r.generatedKeys,
                            !.called = [fn |-> "fetchPrivKey", authorized |-> isAuthorized,
                                        reads |-> r.reads, sent |-> FALSE, report |-> r.error]]
  /\ UNCHANGED <<kmsVars, cipherVars, payVars, genVars, directoryVars, submission, ledgerVars, runVars,
                 l2WalletAddress, isAuthorized, claimTo, depositHeaders, decryptable,
                 loadingDeposits, claimingIndex, lastClaimTx>>

\* refreshPrivKeyStatus is called: hasMyPrivKey, and fetchPrivKey when a key
\* is stored.
RefreshPrivKeyStatus ==
  /\ \E statusOk \in BOOLEAN, readOk \in BOOLEAN :
       LET exists == keyState.stored # NoKey
           r == fetchPrivKey(l2WalletAddress, isAuthorized, readOk, keyState.stored,
                             privKeyHex, keyState.generatedKeys)
           done(error, reads, has, key, generated) ==
             /\ depositError' = error
             /\ privKeyHex' = key
             /\ keyState' = [keyState EXCEPT
                               !.hasPrivKey = has,
                               !.generatedKeys = generated,
                               !.called = [fn |-> "refreshPrivKeyStatus",
                                           authorized |-> isAuthorized, reads |-> reads,
                                           sent |-> FALSE, report |-> error]]
       IN IF l2WalletAddress = <<>>
            THEN done("", 0, keyState.hasPrivKey, privKeyHex, keyState.generatedKeys)
          ELSE IF ~isAuthorized
            THEN done("Authorize Prividium to read private storage.", 0, keyState.hasPrivKey,
                      privKeyHex, keyState.generatedKeys)
          ELSE IF ~statusOk
            THEN done("Unable to read private key status.", 1, keyState.hasPrivKey,
                      privKeyHex, keyState.generatedKeys)
          ELSE IF ~exists
            THEN done("", 1, FALSE, privKeyHex, keyState.generatedKeys)
          ELSE done(r.error, 1 + r.reads, TRUE, r.privKeyHex, r.generatedKeys)
  /\ UNCHANGED <<kmsVars, cipherVars, payVars, genVars, directoryVars, submission, ledgerVars, runVars,
                 l2WalletAddress, isAuthorized, claimTo, depositHeaders, decryptable,
                 loadingDeposits, claimingIndex, lastClaimTx>>

\* storePrivKey is called: setMyPrivKey through sendL2Transaction.
StorePrivKey ==
  /\ keyState.generatedKeys # NoKey
  /\ \E chainOk \in BOOLEAN, sendOk \in BOOLEAN :
       LET t == sendL2Transaction(l2WalletAddress, chainOk, isAuthorized, sendOk)
           called == [fn |-> "sendL2Transaction", authorized |-> isAuthorized,
                      reads |-> t.reads, sent |-> t.sent, report |-> t.error]
       IN IF t.ok
          THEN /\ keyState' = [keyState EXCEPT !.lastPrivKeyTx = TRUE, !.hasPrivKey = TRUE,
                                               !.pending = keyState.generatedKeys,
                                               !.called = called]
               /\ privKeyHex' = keyState.generatedKeys
               /\ depositError' = ""
          ELSE /\ keyState' = [keyState EXCEPT !.called = called]
               /\ privKeyHex' = privKeyHex
               /\ depositError' = "Failed to store private key."
  /\ UNCHANGED <<kmsVars, cipherVars, payVars, genVars, directoryVars, submission, ledgerVars, runVars,
                 l2WalletAddress, isAuthorized, claimTo, depositHeaders, decryptable,
                 loadingDeposits, claimingIndex, lastClaimTx>>

\* The inbox executes the setMyPrivKey transaction.
ExecuteStore ==
  /\ keyState.pending # NoKey
  /\ keyState' = [keyState EXCEPT !.stored = keyState.pending, !.pending = NoKey]
  /\ UNCHANGED <<kmsVars, cipherVars, payVars, genVars, directoryVars, submission, scanVars>>

SessionNext ==
  \/ Authorize \/ GenerateKeys \/ FetchPrivKey \/ RefreshPrivKeyStatus \/ StorePrivKey
  \/ ExecuteStore \/ ScanNext
SpecSession == InitSession /\ [][SessionNext]_vars

(* ------------------------------ C1 ------------------------------------ *)
\* Every state a piece of code can be working on: the committed one and the
\* one of each running call.
Worlds == {World} \cup {stack[i].ws : i \in 1 .. Len(stack)}

\* C1: replay protection.  No depositId has more than one successful deposit
\* (a used id has exactly one, an unused id none); a call of onL1Deposit that
\* finds used[depositId] set, re-entrant calls made during the value transfer
\* included, reverts with AlreadyUsed; and used[depositId], once true, never
\* becomes false again.
C1_ReplayProtection ==
  /\ [](\A d \in DepositIds :
          /\ completed[d] = IF used[d] THEN 1 ELSE 0
          /\ \A ws \in Worlds : ws.completed[d] <= 1 /\ (ws.completed[d] = 1 => ws.used[d]))
  /\ [](call.phase = "done" /\ call.usedBefore => call.result = "AlreadyUsed")
  /\ [][\A d \in DepositIds : used[d] => used'[d]]_vars

\* The recipient of a running deposit has called onL1Deposit again with the
\* same depositId and was turned down.
C1_Witness ==
  /\ stack # <<>>
  /\ call.phase = "done"
  /\ call.sender = Head(stack).recipient
  /\ call.depositId = Head(stack).call.depositId
  /\ call.usedBefore
  /\ call.result = "AlreadyUsed"

(* ------------------------------ C2 ------------------------------------ *)
\* C2: deposit binding.  A call of onL1Deposit succeeds only under the
\* depositId that is packed in its aad, so that a pair (aad, ciphertext) fails
\* under every other depositId.
C2_DepositBinding ==
  call.phase = "done" /\ call.result = "ok"
    => parseAAD(call.aad).depositId = call.depositId

(* ------------------------------ C5 ------------------------------------ *)
RECURSIVE SumOver(_, _)
SumOver(f, S) ==
  IF S = {} THEN 0
  ELSE LET x == CHOOSE y \in S : TRUE IN f[x] + SumOver(f, S \ {x})

\* The recipient the ciphertext of a call decrypts to under the KMS key.
DecryptedRecipient(c) == Xor(c.ciphertext[2], keccak256(<<privateKey, c.aad, c.ciphertext[1]>>))

\* The balances after `value` went from the sender to the recipient.
Moved(bal, sender, recipient, value) ==
  [a \in Address |->
     bal[a] + (IF a = recipient THEN value ELSE 0) - (IF a = sender THEN value ELSE 0)]

\* C5: funds conservation.  PrivatePay retains none of the deposited value and
\* the receivedTotal entries add up to the msg.value of the successful
\* deposits; a successful deposit of value v transfers exactly v to the
\* recipient its ciphertext decrypts to, and adds exactly v to that
\* recipient's receivedTotal entry and nothing to any other.
C5_FundsConservation ==
  /\ [](\A ws \in Worlds :
          /\ ws.balance[PRIVATE_PAY_L2_ADDRESS] = 0
          /\ SumOver(ws.receivedTotal, Address) = ws.deposited)
  /\ [](call.phase = "done" /\ call.result = "ok"
          => call.recipient = DecryptedRecipient(call))
  \* the value transfer, when the call gets as far as recipient.call
  /\ [][call.phase = "pending" /\ (call'.result = "ok" \/ Len(stack') > Len(stack))
          => LET c == IF call'.phase = "done" THEN call' ELSE Head(stack').call
             IN Current'.balance = Moved(Current.balance, c.sender, c.recipient, c.value)]_vars
  \* the credit, when the call ends
  /\ [][call.phase # "done" /\ call'.phase = "done" /\ call'.result = "ok"
          => Current'.receivedTotal
               = [Current.receivedTotal EXCEPT ![call'.recipient] = @ + call'.value]]_vars

\* A second deposit to a recipient has ended and its value came on top of the
\* first one's.
C5_Witness ==
  /\ call.phase = "done"
  /\ call.result = "ok"
  /\ call.value > 0
  /\ Current.receivedTotal[call.recipient] > call.value
  /\ Current.balance[call.recipient] >= 0

(* ------------------------------ C3 ------------------------------------ *)
\* The call of decrypt that is recorded was handed the sealed ciphertext.
OpenedSealed == opened.called /\ opened.ciphertext = sealed.ciphertext

\* The AAD handed to decrypt is 116 bytes in the four packed fields and names
\* the executing chain, the caller and the context argument of the call.
HeaderAccepted ==
  /\ Len(opened.aad) = 4
  /\ ChunksLength(opened.aad) = AAD_LENGTH
  /\ opened.aad[1][2] = L2_CHAIN_ID
  /\ opened.aad[2][2] = opened.caller
  /\ opened.aad[3][2] = opened.context

C4_AllowlistGates ==
  opened.called =>
     /\ opened.result.ok => opened.allowed
     /\ ~opened.allowed => opened.result = Revert("NotAllowed")

\* C4's case: a caller that is not allowlisted called decrypt with the very AAD
\* and ciphertext that were sealed for it, and an allowlisted one was served.
C4_Witness ==
  /\ OpenedSealed
  /\ opened.aad = sealed.aad
  /\ HeaderAccepted
  /\ ~opened.allowed
  /\ opened.result = Revert("NotAllowed")
  /\ \E c \in KmsCallers : allowlist[c]

(* ------------------------------ C6 ------------------------------------ *)
\* The recorded call is the round trip of C6: the KMS key is the sealing key,
\* the sealed ciphertext is opened under the sealing AAD, and that AAD names
\* the current chain, the caller and the context of the call.
RoundTripCall ==
  /\ OpenedSealed
  /\ privateKey = sealed.key
  /\ opened.aad = sealed.aad
  /\ HeaderAccepted

\* C6 as stated: the round trip returns the plaintext.
C6_RoundTrip == RoundTripCall => opened.result = Return(sealed.plaintext)

\* C6 as amended: the round trip returns the plaintext when the caller is
\* allowlisted at the time of the call.
C6_RoundTripAllowed ==
  (RoundTripCall /\ opened.allowed) => opened.result = Return(sealed.plaintext)

\* C6's case: a round trip by an allowlisted caller took place.
C6_Witness == RoundTripCall /\ opened.allowed /\ opened.result.ok
(* ------------------------------ C7 ------------------------------------ *)
Indices(list) == {list[k].index : k \in 1 .. Len(list)}

\* The record is one that generatePayload makes for the connected wallet's
\* key and address, for some secret and some depositId.
SealedToWallet(record) ==
  \E s \in 1 .. (MaxRecords + 1), d \in 1 .. (MaxRecords + 1) :
    record.ciphertext = Deposit(publicKeyOf(privKeyHex), l2WalletAddress[1], s, d).ciphertext

\* The indices of the SCAN_LIMIT most recent records.
Recent == {i \in 0 .. (Len(ledger) - 1) : i >= Len(ledger) - SCAN_LIMIT}

\* The record was unclaimed when the last run read the headers.
UnclaimedAtRead(i) ==
  \E k \in 1 .. Len(depositHeaders) :
    depositHeaders[k].index = i /\ ~depositHeaders[k].claimed

\* C7 as stated: scanner isolation.  After a run of loadDeposits over an inbox
\* that no claim has touched, decryptable holds exactly the indices of the
\* unclaimed records sealed to the wallet, however many records there are.
C7_ScannerIsolation ==
  lastRun.ok /\ ~lastClaimTx.sent
    => Indices(decryptable)
         = {i \in 0 .. (Len(ledger) - 1) :
              ~ledger[i + 1].claimed /\ SealedToWallet(ledger[i + 1])}

\* C7, amended: scanner isolation within the SCAN_LIMIT most recent records.
\* After a run of loadDeposits whose reads all succeeded, the headers read are
\* those of the SCAN_LIMIT most recent records, and decryptable holds, once
\* each and in the order stored, exactly the indices of those among them that
\* were unclaimed at the read and are sealed to the wallet.
C7_ScannerIsolationRecent ==
  lastRun.ok
    => /\ Indices(depositHeaders) = Recent
       /\ ~lastClaimTx.sent
            => \A k \in 1 .. Len(depositHeaders) :
                 depositHeaders[k].claimed = ledger[depositHeaders[k].index + 1].claimed
       /\ Indices(decryptable)
            = {i \in Recent : UnclaimedAtRead(i) /\ SealedToWallet(ledger[i + 1])}
       /\ \A j, k \in 1 .. Len(decryptable) :
            j < k => decryptable[j].index < decryptable[k].index

\* An inbox of more than SCAN_LIMIT records was scanned: the wallet's first
\* record, unclaimed, was not read, and a later one of the wallet's was found
\* among records of others.
C7_Witness ==
  /\ lastRun.ok
  /\ Len(ledger) > SCAN_LIMIT
  /\ SealedToWallet(ledger[1]) /\ ~ledger[1].claimed
  /\ decryptable # <<>>
  /\ Len(decryptable) < Len(depositHeaders)

(* ------------------------------ C8 ------------------------------------ *)
\* C8: decryption failures are absorbed.  The turn of the loop in which
\* decryptPayload fails leaves depositError, the matches so far and the list on
\* screen alone and passes on to the next header; all through a run
\* depositError stays clear and the matches are those of all the headers
\* passed; and a run that met failures ends with every match among its
\* headers, those before and those after the failures.
C8_FailuresAbsorbed ==
  /\ [][scan.active /\ scan' # scan /\ lastEvent' = "decryptFailed"
          => /\ depositError' = depositError
             /\ decryptable' = decryptable
             /\ scan'.active
             /\ scan'.headers = scan.headers
             /\ scan'.pos = scan.pos + 1
             /\ scan'.matches = scan.matches]_vars
  /\ [](scan.active
          => /\ depositError = ""
             /\ Indices(scan.matches)
                  = {scan.headers[k].index : k \in
                       {j \in 1 .. (scan.pos - 1) :
                          /\ ~scan.headers[j].claimed
                          /\ SealedToWallet(ledger[scan.headers[j].index + 1])}})
  /\ [](lastRun.ok /\ lastRun.failed # {}
          => Indices(decryptable)
               = {i \in Indices(depositHeaders) :
                    UnclaimedAtRead(i) /\ SealedToWallet(ledger[i + 1])})

\* A run ended that found a match, then failed to decrypt a record, then
\* found another match.
C8_Witness ==
  /\ lastRun.ok
  /\ \E i, k \in Indices(decryptable), j \in lastRun.failed : i < j /\ j < k

(* ------------------------------ C9 ------------------------------------ *)
\* C9: client-side claim validation.  A claim transaction is sent only for a
\* record that is unclaimed and whose stored commitment is keccak256 of the
\* secret revealed.
C9_ClaimValidated ==
  lastClaimTx.sent => lastClaimTx.commitmentMatches /\ lastClaimTx.unclaimed

(* ------------------------------ C10 ----------------------------------- *)
BothSent == \A run \in Runs : l1Request[run].sent

\* The 32 bytes generatePayload encrypts for a recipient.
PlaintextOf(recipient) == encodeAddress(recipient[1])[1]

\* C10: recipient confidentiality on L1.  Two runs with the same key, amount
\* and random draws send requests that agree in everything but the masked
\* part of the ciphertext: same depositId, same AAD (packed from the chain,
\* the contract, the context and the depositId alone), same nonce; and in
\* each the ciphertext after the nonce is the recipient's 32 bytes XORed, all
\* of them, with the one mask keccak256(key, aad, nonce).
C10_RecipientConfidential ==
  BothSent =>
    LET a == l1Request[1].l2Calldata
        b == l1Request[2].l2Calldata
        m == keccak256(<<configKey, a.aad, genDraw.nonce>>)
    IN /\ [l1Request[1] EXCEPT !.l2Calldata.ciphertext = <<>>]
            = [l1Request[2] EXCEPT !.l2Calldata.ciphertext = <<>>]
       /\ a.depositId = genDraw.depositIdHex
       /\ a.aad = encodePacked(L2_CHAIN_ID, PRIVATE_PAY_L2_ADDRESS, CONTEXT, a.depositId)
       /\ Len(a.ciphertext) = 2 /\ Len(b.ciphertext) = 2
       /\ a.ciphertext[1] = genDraw.nonce /\ b.ciphertext[1] = genDraw.nonce
       /\ a.ciphertext[2] = Xor(PlaintextOf(form[1].recipient), m)
       /\ b.ciphertext[2] = Xor(PlaintextOf(form[2].recipient), m)

\* Both runs have sent, to different recipients, and their ciphertexts differ.
C10_Witness ==
  /\ BothSent
  /\ form[1].recipient # form[2].recipient
  /\ l1Request[1].l2Calldata.ciphertext # l1Request[2].l2Calldata.ciphertext

(* ------------------------------ C11 ----------------------------------- *)
\* C11: bounded plaintext.  encryptRecipient produces a payload only for a
\* plaintext of at most 32 bytes (the width of the keystream mask); for a
\* longer plaintext it fails and no ciphertext exists.
C11_BoundedPlaintext ==
  sealed.ciphertext # <<>> => WordsLength(sealed.plaintext) <= WORD_BYTES

(* ------------------------------ C12 ----------------------------------- *)
\* The payloads the sender app seals under its configured key, by deposit and
\* recipient.
AppPayloads == [d \in DepositIds |-> [r \in PayRecipients |-> AppPayload(d, r)]]

\* The recipients for which the sender app sealed the payload of the call that
\* was executed (under any deposit).
SealedRecipients ==
  {r \in PayRecipients :
     \E d \in DepositIds :
       AppPayloads[d][r] = [aad |-> call.aad, ciphertext |-> call.ciphertext]}

\* What SharedKMS.decrypt returns to PrivatePay for the payload of the call.
KmsAnswer ==
  decrypt(allowlist, privateKey, PRIVATE_PAY_L2_ADDRESS, CONTEXT, call.aad, call.ciphertext)

ParsesTo(aad, chainId, consumer, context, depositId) ==
  /\ ChunksLength(aad) = AAD_LENGTH
  /\ parseAAD(aad) = [ok |-> TRUE, chainId |-> chainId, consumer |-> consumer,
                       context |-> context, depositId |-> depositId]

\* C13: AAD layout.  The AAD of the sender app for a deposit, and the AAD that
\* the key-directory app built (buildAad) for each deposit it lists, are 116
\* bytes from which _parseAAD reads back the chain id, the destination
\* contract, the context tag and the depositId that were packed.
C13_AadLayout ==
  /\ \A d \in DepositIds :
        ParsesTo(AppAad(d), L2_CHAIN_ID, PRIVATE_PAY_L2_ADDRESS, CONTEXT, d)
  /\ \A i \in 1 .. Len(decryptable) :
        ParsesTo(buildAad(decryptable[i].depositId), L2_CHAIN_ID,
                 PRIVATEPAY_INBOX_L2_ADDRESS, CONTEXT_HASH, decryptable[i].depositId)

(* ------------------------------ C14 ----------------------------------- *)
\* No index is listed twice and the indices are listed in the order of the
\* header list (ascending).
InHeaderOrder(list) ==
  \A i, j \in 1 .. Len(list) : i < j => list[i].index < list[j].index

\* C14: idempotent, order-stable scan.  A run of loadDeposits that completes
\* lists its matches in the order of the header list, each once; when the
\* inbox is the one that the list on screen came from (same wallet, same key),
\* the run leaves the list as it was, and it sets no error unless a read of
\* the chain fails.
C14_IdempotentScan ==
  [][(scan.active /\ lastRun'.done /\ lastRun'.ok) =>
       /\ InHeaderOrder(decryptable')
       /\ scan.listed = ledger =>
            /\ decryptable' = decryptable
            /\ lastEvent' = "loaded" => depositError' = ""]_vars

\* C14's case: a second completed run over an unchanged inbox with two matches.
C14_Witness ==
  /\ lastRun.done
  /\ lastRun.ok
  /\ lastRun.again
  /\ Len(decryptable) >= 2
  /\ depositError = ""

(* ------------------------------ C15 ----------------------------------- *)
\* The bundle of a payload that generatePayload built for depositId d comes
\* apart into the four fields it was made of, in their order, and the
\* depositId among them is the one the AAD of the sealed part was built from.
BundleRoundTrip(d) ==
  LET aad == buildAad(d)
      enc == encryptPayload(publicKeyOf(RECIPIENT_KEY), packRecipientSecret(WALLET, d), aad)
      bundle == Deposit(publicKeyOf(RECIPIENT_KEY), WALLET, d, d).ciphertext
      parts == unbundle(bundle)
  IN /\ parts = [ok |-> TRUE, depositId |-> d, ephemeralPub |-> enc.ephemeralPub,
                  nonce |-> enc.nonce, sealed |-> enc.sealed]
     /\ bundle[1] = d
     /\ parts.sealed.aad = buildAad(parts.depositId)
     /\ bundleCiphertext(parts.depositId, parts.ephemeralPub, parts.nonce, parts.sealed) = bundle

C16_PayloadConsistent ==
  /\ [](payload # NoPayload =>
         LET parts == unbundle(payload.ciphertext)
         IN /\ payload.commitment = commitmentOf(payload.secret)
            /\ parts.ok
            /\ parts.sealed.plaintext = packRecipientSecret(payload.recipient[1], payload.secret)
            /\ ChunksLength(parts.sealed.plaintext) = PLAINTEXT_LENGTH
            /\ payload.aad = bytesToHex(buildAad(payload.depositId))
            /\ parts.sealed.aad = buildAad(payload.depositId)
            /\ parts.depositId = payload.depositId)
  /\ [][drawn' # drawn =>
          \/ payload' = payload
          \/ /\ payload'.depositId = drawn'.depositId
             /\ payload'.secret = drawn'.secret]_vars
  /\ [][(payload' # payload /\ payload' # NoPayload) =>
          /\ payload'.depositId = drawn'.depositId
          /\ payload'.secret = drawn'.secret]_vars

\* C16's case: a payload is stored whose depositId and secret are two
\* different draws.
C16_Witness ==
  /\ payload # NoPayload
  /\ payload.recipient = <<WALLET, "lower">>
  /\ payload.depositId # payload.secret
  /\ drawn = [depositId |-> payload.depositId, secret |-> payload.secret]

(* ------------------------------ C18 ----------------------------------- *)
\* The lookup for the address in the recipient field, a valid one, has ended.
LookupDone ==
  /\ isAddress(recipientAddress)
  /\ lookup.done
  /\ ~lookup.pending
  /\ lookup.address = recipientAddress

\* C18: the states of the public-key lookup are kept apart.  Once the lookup
\* has ended, an absent key shows 'not registered' and a failed read 'unable
\* to read', both with recipientPubKey empty; a malformed key does not show
\* 'not registered' and keeps its bytes, an absent key shows no other status
\* than 'not registered'; and while the key is absent or the read has failed
\* no payload is stored.
C18_LookupStatesApart ==
  /\ [](LookupDone =>
         /\ lookup.outcome = "absent" =>
              /\ pubKeyStatus = "Recipient not registered on L1 key directory."
              /\ recipientPubKey = NoPubKey
         /\ lookup.outcome = "failed" =>
              /\ pubKeyStatus = "Unable to read public key. Check the L1 RPC or contract address."
              /\ recipientPubKey = NoPubKey
         /\ lookup.outcome = "malformed" =>
              /\ pubKeyStatus # "Recipient not registered on L1 key directory."
              /\ recipientPubKey = MALFORMED_KEY
         /\ lookup.outcome = "found" =>
              /\ pubKeyStatus = "Recipient public key found."
              /\ recipientPubKey = registeredKey(recipientAddress))
  /\ [][(LookupDone /\ lookup.outcome \in {"absent", "failed"})
          => payload' \in {payload, NoPayload}]_vars

\* C18's case: the key of a valid address is absent and generatePayload was
\* called, while a payload for this address from before the lookup ended is
\* stored.
C18_Witness ==
  /\ LookupDone
  /\ lookup.outcome = "absent"
  /\ encryptionError = "Recipient is not registered with a public key."
  /\ payload # NoPayload
  /\ payload.recipient = recipientAddress

(* ------------------------------ C17 ----------------------------------- *)
\* C17: no automatic retry.  An invocation of sendBridgehubWallet,
\* sendTransaction, sendL1Register or claimDeposit asks the wallet to send at
\* most once; the wallet is asked only in the step that invokes the
\* operation; and when the wallet call has failed the operation is over with
\* the failure in its status or error field.
C17_NoAutomaticRetry ==
  /\ [](\A op \in Operations :
          /\ submission[op].calls <= 1
          /\ submission[op].failed =>
               /\ submission[op].pc = "idle"
               /\ submission[op].calls = 1
               /\ submission[op].status = caught(op)
               /\ submission[op].status # "")
  /\ [][\A op \in Operations :
          submission'[op].calls > submission[op].calls => submission[op].pc = "idle"]_vars
  /\ [][\A op \in Operations :
          (submission[op].failed /\ submission'[op].failed) =>
             submission'[op] = submission[op]]_vars

\* C17's case: the wallet call of every one of the four operations has failed.
C17_Witness ==
  \A op \in Operations : submission[op].failed /\ submission[op].calls = 1

(* ------------------------------ C19 ----------------------------------- *)
\* What the precompile variant of decrypt returns for the recorded call, for
\* either answer of the precompile.
PrecompileAnswers ==
  {decryptPrecompile(allowlist, opened.caller, opened.context, opened.aad, answer) :
     answer \in {Return(<<DEPLOYER>>), Revert("")}}

\* C19 as stated: decrypt, in both variants, reverts with InvalidAad whenever
\* the AAD is not 116 bytes or its chain id, consumer or context field does
\* not match the executing chain, the caller or the context argument.
C19_HeaderVerified ==
  (opened.called /\ ~HeaderAccepted) =>
     /\ opened.result = Revert("InvalidAad")
     /\ PrecompileAnswers = {Revert("InvalidAad")}

\* C19 as amended: for such an AAD decrypt, in both variants, returns no
\* plaintext; it reverts with InvalidAad when the caller is allowlisted, and
\* with NotAllowed when it is not.
C19_HeaderVerifiedAllowed ==
  (opened.called /\ ~HeaderAccepted) =>
     /\ ~opened.result.ok
     /\ \A answer \in PrecompileAnswers : ~answer.ok
     /\ opened.allowed =>
          /\ opened.result = Revert("InvalidAad")
          /\ PrecompileAnswers = {Revert("InvalidAad")}
     /\ ~opened.allowed =>
          /\ opened.result = Revert("NotAllowed")
          /\ PrecompileAnswers = {Revert("NotAllowed")}

\* C19's case: an allowlisted caller handed over the sealed ciphertext with an
\* AAD whose context is not the context argument, and got InvalidAad.
C19_Witness ==
  /\ OpenedSealed
  /\ opened.allowed
  /\ opened.aad = sealed.aad
  /\ opened.aad[2][2] = opened.caller
  /\ opened.aad[3][2] # opened.context
  /\ opened.result = Revert("InvalidAad")

(* ------------------------------ C20 ----------------------------------- *)
\* The plaintext `answer` that SharedKMS returns is one 32-byte word that is an
\* address (zero above its low 20 bytes) other than the zero address.
PlaintextIsRecipient(answer) ==
  /\ answer.ok
  /\ Len(answer.data) = 1
  /\ answer.data[1] \in Address \ {ZERO_ADDRESS}

\* C20: plaintext validation before payment.  A call of onL1Deposit whose
\* decrypted plaintext is no valid non-zero address reverts: storage, balances
\* and the running calls are as before; value moves only in a call whose
\* plaintext is such an address, and to that address.
C20_ValidatedBeforePayment ==
  [][(call.phase = "pending" /\ call'.phase # "pending") =>
       LET answer == KmsAnswer
           valid == PlaintextIsRecipient(answer)
       IN IF ~valid
          THEN /\ call'.phase = "done"
               /\ call'.result # "ok"
               /\ UNCHANGED <<used, receivedTotal, balance, completed, deposited, stack>>
          ELSE (balance' # balance \/ stack' # stack \/ call'.result = "ok") =>
                 \/ call'.recipient = answer.data[1]
                 \/ stack' # <<>> /\ Head(stack').recipient = answer.data[1]]_vars

\* C20's case: SharedKMS holds the sender's key, PrivatePay is allowlisted and
\* a deposit with a corrupted ciphertext was reverted by the decoder.
C20_Witness ==
  /\ call.phase = "done"
  /\ privateKey = PUBLIC_KEY
  /\ [aad |-> call.aad, ciphertext |-> call.ciphertext] = Corrupted(AppPayload(1, DEPLOYER))
  /\ call.value > 0
  /\ KmsAnswer.ok
  /\ call.result = "AbiDecode"

(* ------------------------------ C21 ----------------------------------- *)
\* The stored ciphertext is empty, or opens under the loaded key to fewer than
\* PLAINTEXT_LENGTH bytes.
Truncating(record) ==
  LET d == decryptPayload(privKeyHex, record.ciphertext,
                          [depositId \in Word |-> buildAad(depositId)])
  IN \/ Len(record.ciphertext) = 0
     \/ d.ok /\ ChunksLength(d.plaintext) < PLAINTEXT_LENGTH

\* C21: truncated plaintext is rejected, not fatal.  The turn of the loop of
\* loadDeposits over a record whose ciphertext is empty or whose plaintext is
\* shorter than 52 bytes sets no error, pushes no match and passes on to the
\* next header; such a record is in no list of matches, and the run ends with
\* the matches of the other headers.
C21_TruncatedRejected ==
  /\ [][(/\ scan.active /\ scan.pos <= Len(scan.headers)
         /\ ~scan.headers[scan.pos].claimed
         /\ Truncating(ledger[scan.headers[scan.pos].index + 1])
         /\ scan' # scan
         /\ lastEvent' # "readFailed")
          => /\ lastEvent' \in {"shortPlaintext", "emptyCiphertext"}
             /\ depositError' = depositError
             /\ decryptable' = decryptable
             /\ loadingDeposits' = loadingDeposits
             /\ scan'.active
             /\ scan'.headers = scan.headers
             /\ scan'.pos = scan.pos + 1
             /\ scan'.matches = scan.matches
             /\ scan'.failed = scan.failed]_vars
  /\ [](\A i \in Indices(scan.matches) \cup Indices(decryptable) \cup lastRun.failed :
          ~Truncating(ledger[i + 1]))
  /\ [](lastRun.ok
          => Indices(decryptable)
               = {i \in Indices(depositHeaders) :
                    UnclaimedAtRead(i) /\ SealedToWallet(ledger[i + 1])})

\* A run ended without error that passed a record with a short plaintext (or
\* an empty ciphertext) sealed for the wallet and found a match after it.
C21_Witness ==
  /\ lastRun.ok
  /\ depositError = ""
  /\ Len(ledger) = 2
  /\ ledger[1] \in {RecordOf("short", 1), RecordOf("empty", 1)}
  /\ Indices(decryptable) = {1}

(* ------------------------------ C22 ----------------------------------- *)
\* C22: a read failure during a scan is surfaced and not retried.  The step of
\* loadDeposits in which a read of the inbox fails (the count or the headers,
\* or the ciphertext of a header) sets depositError to the load-failure
\* message, ends the run (no turn of it follows, so no read is issued again),
\* leaves the list on screen as it was and loadingDeposits false; the list on
\* screen is untouched all through a run that is still going.
C22_ReadFailureSurfaced ==
  /\ [][lastEvent' = "readFailed" /\ (scan' # scan \/ lastRun' # lastRun \/ lastEvent # "readFailed")
          => /\ depositError' = "Unable to load deposits."
             /\ decryptable' = decryptable
             /\ ~loadingDeposits'
             /\ ~scan'.active
             /\ lastRun'.done /\ ~lastRun'.ok]_vars
  /\ [][scan.active \/ scan'.active
          => \/ decryptable' = decryptable
             \/ lastEvent' \in {"loaded", "balanceFailed"}]_vars
  /\ [](lastEvent = "readFailed"
          => /\ depositError = "Unable to load deposits."
             /\ ~loadingDeposits
             /\ ~scan.active)

\* A run failed at a read while the list of an earlier run was on screen.
C22_Witness ==
  /\ lastEvent = "readFailed"
  /\ lastRun.done /\ ~lastRun.ok
  /\ decryptable # <<>>
  /\ depositHeaders # <<>>
  /\ depositError = "Unable to load deposits."

(* ------------------------------ C23 ----------------------------------- *)
\* A call of loadDeposits made without the authorization starts no run: no
\* read of the count, the headers or a ciphertext.
LoadStartsNoRun ==
  /\ ~scan'.active
  /\ lastEvent' \in {"notReady", "notAuthorized"}
  /\ UNCHANGED <<depositHeaders, decryptable, loadingDeposits, lastRun>>

\* A call of fetchPrivKey, refreshPrivKeyStatus or sendL2Transaction made
\* without the authorization issued no read and handed the wallet nothing.
KeyCallGated ==
  keyState.called.fn # "" /\ ~keyState.called.authorized
    => keyState.called.reads = 0 /\ ~keyState.called.sent

\* C23 as stated: the authorization gates the scan and claim paths.  Called
\* while prividium.isAuthorized() is false, loadDeposits, fetchPrivKey and
\* refreshPrivKeyStatus issue no read of the inbox and sendL2Transaction
\* submits no transaction, and each reports the missing authorization.
C23_AuthorizationGates ==
  /\ [][~isAuthorized /\ (LoadDeposits \/ ClaimReload)
          => LoadStartsNoRun /\ depositError' = "Authorize Prividium to read deposits."]_vars
  /\ [][~isAuthorized /\ ClaimDeposit => UNCHANGED <<mempool, lastClaimTx, claimingIndex>>]_vars
  /\ [](scan.active \/ mempool.sent \/ keyState.pending # NoKey => isAuthorized)
  /\ []KeyCallGated
  /\ [](keyState.called.fn \in {"fetchPrivKey", "refreshPrivKeyStatus"}
          /\ ~keyState.called.authorized
          => keyState.called.report = "Authorize Prividium to read private storage.")
  /\ [](keyState.called.fn = "sendL2Transaction" /\ ~keyState.called.authorized
          => keyState.called.report = "Prividium authorization required")

\* C23, amended: the authorization gates the scan and claim paths; the missing
\* authorization is reported unless an earlier guard of the function ended the
\* call (no wallet connected, for loadDeposits no key loaded, for
\* sendL2Transaction no wallet or the wrong chain).
C23_AuthorizationGatesAfterGuards ==
  /\ [][~isAuthorized /\ (LoadDeposits \/ ClaimReload)
          => /\ LoadStartsNoRun
             /\ depositError' = IF l2WalletAddress = <<>> \/ privKeyHex = NoKey
                                THEN ""
                                ELSE "Authorize Prividium to read deposits."]_vars
  /\ [][~isAuthorized /\ ClaimDeposit => UNCHANGED <<mempool, lastClaimTx, claimingIndex>>]_vars
  /\ [](scan.active \/ mempool.sent \/ keyState.pending # NoKey => isAuthorized)
  /\ []KeyCallGated
  /\ [](keyState.called.fn \in {"fetchPrivKey", "refreshPrivKeyStatus"}
          /\ ~keyState.called.authorized
          => keyState.called.report = IF l2WalletAddress = <<>>
                                      THEN ""
                                      ELSE "Authorize Prividium to read private storage.")
  /\ [](keyState.called.fn = "sendL2Transaction" /\ ~keyState.called.authorized
          => IF l2WalletAddress = <<>>
             THEN keyState.called.report = "Wallet not connected"
             ELSE keyState.called.report \in {"Wrong network.", "Prividium authorization required"})

\* Without the authorization, with a wallet connected and a key loaded:
\* sendL2Transaction threw for the missing authorization, and then
\* loadDeposits reported it and started no run.
C23_Witness ==
  /\ ~isAuthorized
  /\ l2WalletAddress # <<>>
  /\ privKeyHex # NoKey
  /\ lastEvent = "notAuthorized"
  /\ depositError = "Authorize Prividium to read deposits."
  /\ ~scan.active
  /\ keyState.called.fn = "sendL2Transaction"
  /\ keyState.called.report = "Prividium authorization required"
  /\ ~keyState.called.sent

(* ------------------------------ C24 ----------------------------------- *)
\* depositId, aad and ciphertext are '' all three.
NothingStored(fields) == fields.depositId = 0 /\ fields.aad = <<>> /\ fields.ciphertext = <<>>

\* depositId, aad and ciphertext are those of one run of generatePayload that
\* sealed: the AAD packs that depositId, and the ciphertext is a recipient
\* sealed under that AAD.
FromOneRun(fields) ==
  /\ fields.depositId \in DepositIds
  /\ fields.aad = encodePacked(L2_CHAIN_ID, PRIVATE_PAY_L2_ADDRESS, CONTEXT, fields.depositId)
  /\ \E typed \in SenderRecipients \ {<<>>} :
       fields.ciphertext
         = encryptRecipient(configKey, fields.aad, encodeAddress(typed[1]),
                            genDraw.nonce).ciphertextHex

SealingFailed == "Failed to encrypt payload. Check your public key and try again."

\* C24: a sealing failure is surfaced and yields nothing sendable.  The end of
\* a generatePayload run either stores a whole payload or sets the encryption
\* error and stores nothing (in the key-directory app too); depositId, aad and
\* ciphertext of the sender app are always all empty or all of one run that
\* sealed; a sendTransaction called while they are empty hands the wallet
\* nothing, and what the wallet is handed is such a payload.
C24_SealingFailureSurfaced ==
  /\ [](NothingStored(senderApp.form) \/ FromOneRun(senderApp.form))
  /\ [][FinishGenerate
          => \/ /\ FromOneRun(senderApp'.form)
                /\ senderApp'.form.payloadError = senderApp.form.payloadError
             \/ /\ senderApp'.form.payloadError = SealingFailed
                /\ senderApp'.form.depositId = senderApp.form.depositId
                /\ senderApp'.form.aad = senderApp.form.aad
                /\ senderApp'.form.ciphertext = senderApp.form.ciphertext]_vars
  /\ [][StartSend /\ NothingStored(senderApp.form)
          => /\ ~senderApp'.isSending
             /\ senderApp'.sending = NoRequest
             /\ senderApp'.request = senderApp.request
             /\ senderApp'.sendError # ""]_vars
  /\ [](senderApp.isSending => FromOneRun(senderApp.sending.l2Calldata))
  /\ [](senderApp.request.sent => FromOneRun(senderApp.request.l2Calldata))
  /\ [][GenerateDepositPayload /\ recipientPubKey # NoPubKey /\ isAddress(recipientAddress)
          /\ ~validPublicKey(recipientPubKey)
          => encryptionError' = "Failed to encrypt payload." /\ payload' = payload]_vars
  /\ [](payload # NoPayload => validPublicKey(recipientPubKey) /\ encryptionError = "")

\* A run of generatePayload failed to seal: nothing is stored, and
\* sendTransaction refused to send.
C24_Witness ==
  /\ senderApp.form.payloadError = SealingFailed
  /\ NothingStored(senderApp.form)
  /\ senderApp.sendError = "Generate an encrypted payload first."
  /\ ~senderApp.request.sent

(* ------------------------------ C25 ----------------------------------- *)
\* The state that the code which made the innermost running call works on.
Enclosing == IF Len(stack) > 1 THEN stack[2].ws ELSE World

\* C25: a reverted deposit changes nothing.  When a call of onL1Deposit ends
\* in a revert, the state its caller goes on with (used, receivedTotal and the
\* balances) is the one the call started from, and the committed state is
\* untouched; a depositId with no successful deposit is unused; and after a
\* revert of a call for an unused depositId, with SharedKMS holding the
\* sender's key and PrivatePay allowlisted, the app's payload for that
\* depositId is accepted.
C25_RevertChangesNothing ==
  /\ [][call'.phase = "done" /\ call.phase # "done" /\ call'.result # "ok"
          => /\ UNCHANGED <<used, receivedTotal, balance, completed, deposited>>
             /\ IF call.phase = "pending"
                  THEN stack' = stack
                  ELSE stack' = Tail(stack) /\ Current' = Enclosing]_vars
  /\ [](\A d \in DepositIds : completed[d] = 0 => ~used[d])
  /\ [](call.phase = "done" /\ call.result # "ok" /\ stack = <<>>
          /\ ~used[call.depositId] /\ allowlist[PRIVATE_PAY_L2_ADDRESS]
          /\ privateKey = PUBLIC_KEY
          => LET again == AppPayload(call.depositId, DEPLOYER)
             IN onL1Deposit(World, BRIDGE, call.depositId, again.aad, again.ciphertext,
                            call.value).status = "done")

\* A deposit to a recipient with code reverted with TransferFailed after the
\* value had moved and the recipient had made a deposit of its own: nothing of
\* either is left, the depositId is unused, and earlier deposits stand.
C25_Witness ==
  /\ call.phase = "done"
  /\ call.result = "TransferFailed"
  /\ call.recipient = CONTRACT_RECIPIENT
  /\ call.value > 0
  /\ stack = <<>>
  /\ ~used[call.depositId]
  /\ completed[call.depositId] = 0
  /\ deposited > 0
  /\ balance[CONTRACT_RECIPIENT] = 0

(* ------------------------------ C26 ----------------------------------- *)
\* C26: only the owner administers the allowlist.  The allowlist starts all
\* false; a step changes allowlist[c] only when it is a setConsumer
\* transaction for c sent by the deployer, who is the owner; a setConsumer
\* transaction of any other account leaves the allowlist as it was; and owner
\* and the key never change.
C26_OnlyOwnerAdministers ==
  /\ \A c \in Address : ~allowlist[c]
  /\ owner = DEPLOYER
  /\ [][/\ \A c \in Address :
             allowlist'[c] # allowlist[c]
               => lastSet' = [sent |-> TRUE, sender |-> DEPLOYER, consumer |-> c]
        /\ (lastSet'.sent /\ lastSet'.sender # DEPLOYER => allowlist' = allowlist)
        /\ UNCHANGED <<owner, privateKey>>]_vars

\* A consumer is allowlisted although the last setConsumer transaction was
\* another account's: the owner's earlier one for that consumer stands.
C26_Witness ==
  /\ lastSet.sent
  /\ lastSet.sender # owner
  /\ allowlist[lastSet.consumer]
  /\ \E c \in Address : ~allowlist[c] /\ c \in KmsCallers

(* ------------------------------ C27 ----------------------------------- *)
\* The public key a stored payload was sealed with opens under the private
\* key of the address the directory registers for payload.recipient.
SealedForRecipient ==
  LET parts == unbundle(payload.ciphertext)
  IN /\ parts.ok
     /\ parts.sealed.key = sharedSecret(EPHEMERAL_KEY, registeredKey(payload.recipient))

\* C27: recipient and key stay paired.  Every payload that is stored was
\* sealed with the public key the key directory registers for
\* payload.recipient.
C27_RecipientKeyPaired == payload # NoPayload => SealedForRecipient

(* ------------------------------ C28 ----------------------------------- *)
\* C28: stale key-directory responses are discarded.  The answer (found,
\* absent, malformed or failed) to a read started for an earlier recipient
\* address leaves recipientPubKey and pubKeyStatus as they are; and once the
\* read for the address in the field has ended, the two hold what that read
\* set, whether the earlier read ended before or after it.
C28_StaleDiscarded ==
  /\ [][(lookup'.late # lookup.late \/ lookup'.stale # lookup.stale)
          => \/ recipientAddress' # recipientAddress
             \/ UNCHANGED <<recipientPubKey, pubKeyStatus>>]_vars
  /\ [](LookupDone =>
          LET set == loadPubKey(lookup.address, lookup.outcome)
          IN /\ recipientPubKey = set.recipientPubKey
             /\ pubKeyStatus = set.pubKeyStatus)

\* The read for the address in the field ended first, finding no key; then the
\* read for the earlier address answered with that address's key.
C28_Witness ==
  /\ LookupDone
  /\ lookup.outcome = "absent"
  /\ lookup.late.arrived
  /\ lookup.late.afterCurrent
  /\ lookup.late.address # recipientAddress
  /\ lookup.late.outcome = "found"
  /\ recipientPubKey = NoPubKey

(* ------------------------------ C29 ----------------------------------- *)
\* C29: overlapping scans converge on the newest result.  Once every
\* loadDeposits run has ended, and the most recently started one has ended
\* without a failed read, the decryptable list and depositHeaders are those
\* this run computed; and loadingDeposits is true while a run is in flight.
C29_NewestRunWins ==
  /\ (tasks.runs = {} /\ tasks.newest.done /\ tasks.newest.ok)
       => /\ decryptable = tasks.newest.matches
          /\ depositHeaders = tasks.newest.headers
  /\ tasks.runs # {} => loadingDeposits

(* ------------------------------ C30 ----------------------------------- *)
\* The Claim button of deposit i is disabled.
ClaimDisabled(i) == claimingIndex = i

\* C30: no duplicate in-flight claim.  While a claimDeposit call for deposit i
\* is in flight the Claim button of i is disabled, at most one call for i is
\* in flight, and claimingIndex is null when no claim is in flight.
C30_NoDuplicateClaim ==
  /\ \A c \in tasks.claims :
       /\ ClaimDisabled(c.index)
       /\ \A other \in tasks.claims : other.index = c.index => other = c
  /\ tasks.claims = {} => claimingIndex = NoIndex

=============================================================================
